---- MODULE Spec2Model ----
(***************************************************************************)
(* Backup orchestration: the express API (trigger / schedule / list /      *)
(* inspect / cancel), the Cloud Tasks queue it schedules into, the Pub/Sub *)
(* topics, and the per-database backup workers with the bucket they upload *)
(* to.  Instants are kept as a pair (minutes since the epoch, milliseconds *)
(* within the minute) so that Date arithmetic stays exact.                 *)
(***************************************************************************)
EXTENDS Integers, Sequences, FiniteSets, TLC

VARIABLES now, tasks, issued, cancelled, published, response, runs, bucket

apiVars == <<now, tasks, issued, cancelled, published, response>>

workerVars == <<runs, bucket>>

vars == <<now, tasks, issued, cancelled, published, response, runs, bucket>>

(* ---------------------------------------------------------------------- *)
(* Bounds of the model                                                     *)
(* ---------------------------------------------------------------------- *)
MaxRequests == 1
MaxMinuteTicks == 1
MaxInvocations == 1
MaxSchedules == 2
MaxFailedAttempts == 1
MaxObjects == 2
MaxDeliveries == 2

(* ---------------------------------------------------------------------- *)
(* Program constants                                                       *)
(* ---------------------------------------------------------------------- *)
MinDelayMinutes == 1
MaxDelayMinutes == 43200

Kinds == {"postgres", "mongodb", "questdb", "qdrantdb"}

(* env.POSTGRES_TOPIC, env.MONGODB_TOPIC, env.QUESTDB_TOPIC, *)
(* env.QDRANTDB_TOPIC: the topic each trigger function publishes to. *)
EnvTopic(k) == <<k, "backup-trigger">>

(* ---------------------------------------------------------------------- *)
(* Instants                                                                *)
(* ---------------------------------------------------------------------- *)
Instant(m, s) == [min |-> m, ms |-> s]

(* clock readings the system may start at: minute 0 and minute 30 of an   *)
(* hour, the second with a fraction of a second                            *)
StartInstants == {Instant(0, 0), Instant(30, 1500)}

Before(a, b) == a.min < b.min \/ (a.min = b.min /\ a.ms < b.ms)

AtOrBefore(a, b) == a = b \/ Before(a, b)

(* Date.prototype.getMinutes: the minute-of-hour field *)
getMinutes(t) == t.min % 60

(* Math.floor(date.getTime() / 1000), as an instant of whole seconds *)
FloorToSeconds(t) == Instant(t.min, (t.ms \div 1000) * 1000)

(* ---------------------------------------------------------------------- *)
(* JavaScript values arriving in req.body.delayMinutes                     *)
(* A string is a sequence of character codes: 0..9 are the digits, 10 is a *)
(* character that is no digit.                                             *)
(* ---------------------------------------------------------------------- *)
Undefined == [t |-> "undefined", n |-> 0, s |-> <<>>]
Null == [t |-> "null", n |-> 0, s |-> <<>>]
Num(n) == [t |-> "number", n |-> n, s |-> <<>>]
Str(s) == [t |-> "string", n |-> 0, s |-> s]
NaN == [t |-> "NaN", n |-> 0, s |-> <<>>]

RECURSIVE DigitsValue(_)
DigitsValue(s) ==
  IF s = <<>> THEN 0 ELSE 10 * DigitsValue(SubSeq(s, 1, Len(s) - 1)) + s[Len(s)]

(* ToNumber *)
ToNumber(v) ==
  CASE v.t = "number" -> v
    [] v.t = "null" -> Num(0)
    [] v.t = "string" ->
         IF \E i \in 1..Len(v.s) : v.s[i] > 9 THEN NaN ELSE Num(DigitsValue(v.s))
    [] OTHER -> NaN

(* ToBoolean, as used by the ! operator *)
Truthy(v) ==
  CASE v.t = "number" -> v.n /= 0
    [] v.t = "string" -> v.s /= <<>>
    [] OTHER -> FALSE

(* the relational operators against a number: false when either side is NaN *)
LessThan(v, k) == ToNumber(v).t = "number" /\ ToNumber(v).n < k

GreaterThan(v, k) == ToNumber(v).t = "number" /\ ToNumber(v).n > k

(* Number::toString for a minute-of-hour 0..59 *)
MinuteDigits(m) == IF m < 10 THEN <<m>> ELSE <<m \div 10, m % 10>>

(* the + operator with a number on the left: string concatenation when the *)
(* right operand is a string, addition otherwise                           *)
Plus(m, v) ==
  CASE v.t = "string" -> Str(MinuteDigits(m) \o v.s)
    [] v.t = "number" -> Num(m + v.n)
    [] v.t = "null" -> Num(m)
    [] OTHER -> NaN

DelayInputs ==
  { Undefined, Null, Num(0), Num(0 - 1), Num(1), Num(MaxDelayMinutes),
    Num(MaxDelayMinutes + 1), Str(<<>>), Str(<<0>>), Str(<<5>>), Str(<<10>>) }

(* ---------------------------------------------------------------------- *)
(* Date                                                                    *)
(* ---------------------------------------------------------------------- *)
InvalidDate == [min |-> 0, ms |-> 0 - 1]

(* Date.prototype.setMinutes(arg): the minute field is replaced by         *)
(* ToIntegerOrInfinity(ToNumber(arg)); hours, seconds and milliseconds are *)
(* kept, and a minute value past 59 carries into the hours.                *)
setMinutes(t, arg) ==
  IF ToNumber(arg).t = "number"
  THEN Instant(t.min - getMinutes(t) + ToNumber(arg).n, t.ms)
  ELSE InvalidDate

(* task.service.js:6-7 *)
scheduleTimeOf(t, delayMinutes) == setMinutes(t, Plus(getMinutes(t), delayMinutes))

(* ---------------------------------------------------------------------- *)
(* Task identifiers: `${database}-backup-${Date.now()}`                    *)
(* ---------------------------------------------------------------------- *)
KindText(k) ==
  CASE k = "postgres" -> <<"p", "o", "s", "t", "g", "r", "e", "s">>
    [] k = "mongodb" -> <<"m", "o", "n", "g", "o", "d", "b">>
    [] k = "questdb" -> <<"q", "u", "e", "s", "t", "d", "b">>
    [] k = "qdrantdb" -> <<"q", "d", "r", "a", "n", "t", "d", "b">>
    [] OTHER -> <<"?">>

TaskId(k, t) == [database |-> k, at |-> t]

(* the characters of a task id; the decimal clock value is one digit class *)
TaskIdText(id) ==
  KindText(id.database) \o <<"-", "b", "a", "c", "k", "u", "p", "-", "0">>

(* String.prototype.includes *)
Includes(text, sub) ==
  \E i \in 0..(Len(text) - Len(sub)) : SubSeq(text, i + 1, i + Len(sub)) = sub

(* cloudTasksClient.taskPath / the route's template string *)
TaskPath(id) == [queue |-> "backup-queue", taskId |-> id]

(* task.service.js:99-102 and 150-153 *)
DerivedDatabase(taskId) ==
  IF Includes(TaskIdText(taskId), KindText("postgres")) THEN "postgres"
  ELSE IF Includes(TaskIdText(taskId), KindText("mongodb")) THEN "mongodb"
  ELSE "unknown"

(* task.service.js:16 *)
topicName(database) ==
  IF database = "postgres" THEN <<"postgres", "backup-trigger">>
  ELSE <<"mongodb", "backup-trigger">>

(* task.service.js:18-24 *)
ScheduledMessage(database, scheduleTime, t) ==
  [action |-> "backup", database |-> database, triggeredBy |-> "scheduled-task",
   scheduledFor |-> scheduleTime, timestamp |-> t]

(* a trigger message that carries the scheduler path's field *)
ManualMessageWithScheduledFor(database, t) ==
  [action |-> "backup", database |-> database, triggeredBy |-> "manual",
   scheduledFor |-> t, timestamp |-> t]

(* backup.service: the message of the four trigger functions *)
ManualMessage(database, t) ==
  [action |-> "backup", database |-> database, triggeredBy |-> "manual",
   timestamp |-> t]

(* task.service.js:26-56 *)
NewTask(database, scheduleTime, t) ==
  [name |-> TaskPath(TaskId(database, t)),
   scheduleTime |-> FloorToSeconds(scheduleTime),
   httpRequest |-> [httpMethod |-> "POST", url |-> topicName(database),
                    body |-> ScheduledMessage(database, scheduleTime, t)],
   dispatchCount |-> 0, responseCount |-> 0, createTime |-> t]

(* ---------------------------------------------------------------------- *)
(* Errors and the error middleware                                         *)
(* ---------------------------------------------------------------------- *)
(* new Error(`${prefix}: ${cause}`): no statusCode property *)
WrappedError(prefix, cause) == [message |-> <<prefix, cause>>, statusCode |-> 0]

(* error.middleware.js:6-17 *)
errorHandler(err) ==
  [status |-> IF err.statusCode /= 0 THEN err.statusCode ELSE 500,
   body |-> [success |-> FALSE, error |-> err.message]]

Reply(op, req, calls, res) ==
  [op |-> op, req |-> req, calls |-> calls, status |-> res.status, body |-> res.body]

NoResponse == [op |-> "none", req |-> <<>>, calls |-> <<>>, status |-> 0,
               body |-> [success |-> FALSE]]

(* ---------------------------------------------------------------------- *)
(* Initial state: an empty queue, nothing published, some clock reading    *)
(* ---------------------------------------------------------------------- *)
ApiInit ==
  /\ now \in StartInstants
  /\ tasks = <<>>
  /\ issued = {}
  /\ cancelled = {}
  /\ published = <<>>
  /\ response = NoResponse

(* the clock advances by a minute *)
Tick ==
  /\ \E start \in StartInstants : now.min - start.min \in 0..(MaxMinuteTicks - 1)
  /\ now' = Instant(now.min + 1, now.ms)
  /\ response' = NoResponse
  /\ UNCHANGED <<tasks, issued, cancelled, published>>
  /\ UNCHANGED workerVars

(* ---------------------------------------------------------------------- *)
(* POST /backup/{db}: triggerPostgresBackup and its three siblings         *)
(* ---------------------------------------------------------------------- *)
(* who made a publish call: the API itself, or the queue on behalf of a task *)
ApiCaller == TaskId("api", InvalidDate)

(* the trigger and schedule requests that have gone through so far *)
Accepted ==
  Cardinality(issued) + Cardinality({i \in DOMAIN published : published[i].via = ApiCaller})

Publication(topic, data, via) ==
  [topic |-> topic, data |-> data, messageId |-> Len(published) + 1, via |-> via]

TriggerResult(k, message, messageId) ==
  [status |-> 200,
   body |-> [success |-> TRUE, messageId |-> messageId,
             message |-> <<k, "backup triggered successfully">>, data |-> message]]

(* a trigger that publishes a second time when the first call fails *)
triggerBackupWithRetry(k, publishOk) ==
  LET message == ManualMessage(k, now)
      entry == Publication(EnvTopic(k), message, ApiCaller)
      calls == IF publishOk THEN <<"publishMessage">>
               ELSE <<"publishMessage", "publishMessage">>
  IN /\ Accepted < MaxRequests
     /\ published' = Append(published, entry)
     /\ response' = Reply("trigger", [database |-> k], calls,
                           TriggerResult(k, message, entry.messageId))
     /\ UNCHANGED <<now, tasks, issued, cancelled>>
     /\ UNCHANGED workerVars

triggerBackup(k, publishOk) ==
  LET message == ManualMessage(k, now)
      entry == Publication(EnvTopic(k), message, ApiCaller)
  IN /\ Accepted < MaxRequests
     /\ IF publishOk
        THEN /\ published' = Append(published, entry)
             /\ response' = Reply("trigger", [database |-> k], <<"publishMessage">>,
                                   TriggerResult(k, message, entry.messageId))
        ELSE /\ published' = published
             /\ response' = Reply("trigger", [database |-> k], <<"publishMessage">>,
                    errorHandler(WrappedError("Failed to trigger backup", "UNAVAILABLE")))
     /\ UNCHANGED <<now, tasks, issued, cancelled>>
     /\ UNCHANGED workerVars

TriggerImmediate == \E k \in Kinds, publishOk \in BOOLEAN : triggerBackup(k, publishOk)

(* ---------------------------------------------------------------------- *)
(* POST /backup/{db}/schedule and scheduleBackupTask                       *)
(* ---------------------------------------------------------------------- *)
(* the validation without its upper limit *)
DelayRejectedNoUpperLimit(delayMinutes) ==
  \/ ~Truthy(delayMinutes)
  \/ LessThan(delayMinutes, MinDelayMinutes)

(* backup.routes.js:61, 90, 118, 160 *)
DelayRejected(delayMinutes) ==
  \/ ~Truthy(delayMinutes)
  \/ LessThan(delayMinutes, MinDelayMinutes)
  \/ GreaterThan(delayMinutes, MaxDelayMinutes)

ValidationFailure ==
  [status |-> 400,
   body |-> [success |-> FALSE,
             message |-> "delayMinutes is required and must be between 1 and 43200 (30 days)"]]

ScheduleResult(database, delayMinutes, task, scheduleTime) ==
  [status |-> 200,
   body |-> [success |-> TRUE, taskName |-> task.name, scheduledFor |-> scheduleTime,
             delayMinutes |-> delayMinutes, database |-> database,
             message |-> <<"Backup scheduled for", database>>]]

(* task.service.js:4-79; createOk is the outcome of the adapter call *)
scheduleBackupTask(database, delayMinutes, createOk) ==
  LET scheduleTime == scheduleTimeOf(now, delayMinutes)
      task == NewTask(database, scheduleTime, now)
      id == task.name.taskId
      req == [database |-> database, delayMinutes |-> delayMinutes]
  IN IF scheduleTime = InvalidDate
     THEN (* scheduleTime.toISOString() throws RangeError *)
          /\ response' = Reply("schedule", req, <<>>,
                 errorHandler(WrappedError("Failed to create backup task", "Invalid time value")))
          /\ UNCHANGED <<tasks, issued>>
     ELSE IF ~createOk \/ id \in issued
     THEN /\ response' = Reply("schedule", req, <<"createTask">>,
                 errorHandler(WrappedError("Failed to create backup task",
                                IF createOk THEN "ALREADY_EXISTS" ELSE "UNAVAILABLE")))
          /\ UNCHANGED <<tasks, issued>>
     ELSE /\ tasks' = [i \in DOMAIN tasks \cup {id} |-> IF i = id THEN task ELSE tasks[i]]
          /\ issued' = issued \cup {id}
          /\ response' = Reply("schedule", req, <<"createTask">>,
                 ScheduleResult(database, delayMinutes, task, scheduleTime))

scheduleRoute(k, delayMinutes, createOk) ==
  /\ IF DelayRejected(delayMinutes)
     THEN /\ response' = Reply("schedule", [database |-> k, delayMinutes |-> delayMinutes],
                                <<>>, ValidationFailure)
          /\ UNCHANGED <<tasks, issued>>
     ELSE scheduleBackupTask(k, delayMinutes, createOk)
  /\ UNCHANGED <<now, cancelled, published>>
  /\ UNCHANGED workerVars

ScheduleDelayed ==
  /\ Accepted < MaxRequests
  /\ \E k \in Kinds, d \in DelayInputs, createOk \in BOOLEAN : scheduleRoute(k, d, createOk)

(* the databases of the requests that arrive in quick succession: one the  *)
(* listing recognises in a task id and one it does not                     *)
ConcurrentKinds == {"postgres", "questdb"}

(* the delays of the requests that arrive in quick succession *)
ConcurrentDelays == {Num(MinDelayMinutes), Num(MinDelayMinutes + 1)}

(* schedule requests arriving while earlier ones are still in the queue,   *)
(* several of them within one reading of the clock                         *)
ScheduleConcurrently ==
  /\ Cardinality(issued) < MaxSchedules
  /\ \E k \in ConcurrentKinds, d \in ConcurrentDelays, createOk \in BOOLEAN :
       scheduleRoute(k, d, createOk)

(* a database value that is none of the four kinds *)
UnknownDatabase == "mysql"

DatabaseInputs == Kinds \cup {UnknownDatabase}

(* scheduleBackupTask as the module exports it, called with any database   *)
(* value: the function has no check of its own                             *)
ScheduleBackupTaskCalled ==
  /\ Cardinality(issued) < MaxSchedules
  /\ \E database \in DatabaseInputs, d \in ConcurrentDelays, createOk \in BOOLEAN :
       scheduleBackupTask(database, d, createOk)
  /\ UNCHANGED <<now, cancelled, published>>
  /\ UNCHANGED workerVars

(* ---------------------------------------------------------------------- *)
(* GET /backup/tasks and listScheduledTasks                                *)
(* ---------------------------------------------------------------------- *)
(* a count as the adapter returns it: a number, and a count of zero may be *)
(* left out of the returned record                                         *)
ReturnedCount(n, zeroAbsent) == IF n = 0 /\ zeroAbsent THEN Undefined ELSE Num(n)

ReturnedTask(task, zeroAbsent) ==
  [task EXCEPT !.dispatchCount = ReturnedCount(task.dispatchCount, zeroAbsent),
               !.responseCount = ReturnedCount(task.responseCount, zeroAbsent)]

(* `count || 0` *)
OrZero(v) == IF Truthy(v) THEN v.n ELSE 0

(* an entry whose state is pending only for a count that is the number 0 *)
ListEntryStrictZero(task) ==
  [taskName |-> task.name,
   taskId |-> task.name.taskId,
   database |-> DerivedDatabase(task.name.taskId),
   scheduledFor |-> task.scheduleTime,
   state |-> IF task.dispatchCount = Num(0) THEN "pending" ELSE "dispatched",
   dispatchCount |-> OrZero(task.dispatchCount),
   responseCount |-> OrZero(task.responseCount),
   createTime |-> task.createTime]

(* task.service.js:97-121 *)
ListEntry(task) ==
  [taskName |-> task.name,
   taskId |-> task.name.taskId,
   database |-> DerivedDatabase(task.name.taskId),
   scheduledFor |-> task.scheduleTime,
   state |-> IF GreaterThan(task.dispatchCount, 0) THEN "dispatched" ELSE "pending",
   dispatchCount |-> OrZero(task.dispatchCount),
   responseCount |-> OrZero(task.responseCount),
   createTime |-> task.createTime]

(* Array.prototype.sort with (a, b) => a.scheduledFor - b.scheduledFor: stable *)
RECURSIVE InsertByScheduledFor(_, _)
InsertByScheduledFor(sorted, e) ==
  IF sorted = <<>> THEN <<e>>
  ELSE IF Before(e.scheduledFor, sorted[Len(sorted)].scheduledFor)
       THEN Append(InsertByScheduledFor(SubSeq(sorted, 1, Len(sorted) - 1), e),
                   sorted[Len(sorted)])
       ELSE Append(sorted, e)

RECURSIVE SortByScheduledFor(_)
SortByScheduledFor(entries) ==
  IF entries = <<>> THEN <<>>
  ELSE InsertByScheduledFor(SortByScheduledFor(SubSeq(entries, 1, Len(entries) - 1)),
                            entries[Len(entries)])

(* the orders in which the adapter's listTasks may return the stored tasks *)
TaskOrders ==
  {q \in [1..Cardinality(DOMAIN tasks) -> DOMAIN tasks] :
     \A i, j \in DOMAIN q : q[i] = q[j] => i = j}

(* what listTasks may resolve with: the stored tasks in some order *)
ListOrders ==
  {[i \in DOMAIN q |-> ReturnedTask(tasks[q[i]], zeroAbsent)] :
     q \in TaskOrders, zeroAbsent \in BOOLEAN}

(* a listing that returns the entries in the order the adapter gave them *)
listScheduledTasksUnsorted(order) ==
  LET scheduledTasks == [i \in DOMAIN order |-> ListEntry(order[i])]
  IN [status |-> 200,
      body |-> [success |-> TRUE, count |-> Len(scheduledTasks), data |-> scheduledTasks,
                message |-> "Scheduled tasks listed successfully"]]

(* task.service.js:84-133 *)
listScheduledTasks(order) ==
  LET scheduledTasks == SortByScheduledFor([i \in DOMAIN order |-> ListEntry(order[i])])
  IN [status |-> 200,
      body |-> [success |-> TRUE, count |-> Len(scheduledTasks), data |-> scheduledTasks,
                message |-> "Scheduled tasks listed successfully"]]

(* a listing that takes the tasks it lists off the queue *)
ListScheduledTasksDraining ==
  /\ \E order \in ListOrders :
       response' = Reply("list", <<>>, <<"listTasks">>, listScheduledTasks(order))
  /\ tasks' = [id \in {} |-> tasks[id]]
  /\ UNCHANGED <<now, issued, cancelled, published>>
  /\ UNCHANGED workerVars

ListScheduledTasks ==
  /\ \E order \in ListOrders :
       response' = Reply("list", <<>>, <<"listTasks">>, listScheduledTasks(order))
  /\ UNCHANGED <<now, tasks, issued, cancelled, published>>
  /\ UNCHANGED workerVars

(* ---------------------------------------------------------------------- *)
(* GET /backup/tasks/:taskId and getTaskDetails                            *)
(* ---------------------------------------------------------------------- *)
(* a task id no schedule request ever produced *)
UnknownTaskId == TaskId("postgres", InvalidDate)

TaskIdInputs == issued \cup {UnknownTaskId}

(* task.service.js:147: `task` is bound to the whole array the adapter     *)
(* resolves with ([task, request, response]), of which no named property   *)
(* is defined; every task.<property> read at lines 156-172 is undefined.   *)
AwaitedGetTask(stored) == [isArray |-> TRUE, first |-> stored]

Property(value, default, stored) == IF value.isArray THEN default ELSE stored

(* task.service.js:143-181 *)
getTaskDetails(taskName) ==
  IF taskName.taskId \notin DOMAIN tasks
  THEN errorHandler(WrappedError("Failed to get task details", "NOT_FOUND"))
  ELSE LET task == AwaitedGetTask(tasks[taskName.taskId])
           dispatchCount == Property(task, 0, task.first.dispatchCount)
       IN [status |-> 200,
           body |-> [success |-> TRUE,
                     data |-> [taskName |-> Property(task, "undefined", task.first.name),
                               taskId |-> taskName.taskId,
                               database |-> DerivedDatabase(taskName.taskId),
                               scheduledFor |-> Property(task, Instant(0, 0), task.first.scheduleTime),
                               state |-> IF dispatchCount > 0 THEN "dispatched" ELSE "pending",
                               dispatchCount |-> dispatchCount,
                               responseCount |-> Property(task, 0, task.first.responseCount)],
                     message |-> "Task details retrieved successfully"]]

GetTaskDetails ==
  /\ \E taskId \in TaskIdInputs :
       response' = Reply("details", [taskId |-> taskId], <<"getTask">>,
                         getTaskDetails(TaskPath(taskId)))
  /\ UNCHANGED <<now, tasks, issued, cancelled, published>>
  /\ UNCHANGED workerVars

(* ---------------------------------------------------------------------- *)
(* DELETE /backup/tasks/:taskId and cancelScheduledTask                    *)
(* ---------------------------------------------------------------------- *)
CancelResult(taskName) ==
  [status |-> 200,
   body |-> [success |-> TRUE, taskName |-> taskName,
             message |-> "Scheduled task cancelled successfully"]]

(* a cancel that treats an absent task as already cancelled *)
cancelScheduledTaskIdempotent(taskName) ==
  LET id == taskName.taskId
      req == [taskId |-> id]
  IN IF id \notin DOMAIN tasks
     THEN /\ response' = Reply("cancel", req, <<"deleteTask">>, CancelResult(taskName))
          /\ UNCHANGED <<tasks, cancelled>>
     ELSE /\ tasks' = [i \in DOMAIN tasks \ {id} |-> tasks[i]]
          /\ cancelled' = cancelled \cup {id}
          /\ response' = Reply("cancel", req, <<"deleteTask">>, CancelResult(taskName))

(* a cancel that reports success and leaves the task in the queue *)
cancelScheduledTaskKeepsTask(taskName) ==
  LET id == taskName.taskId
      req == [taskId |-> id]
  IN IF id \notin DOMAIN tasks
     THEN /\ response' = Reply("cancel", req, <<"deleteTask">>,
                 errorHandler(WrappedError("Failed to cancel scheduled task", "NOT_FOUND")))
          /\ UNCHANGED <<tasks, cancelled>>
     ELSE /\ tasks' = tasks
          /\ cancelled' = cancelled \cup {id}
          /\ response' = Reply("cancel", req, <<"deleteTask">>, CancelResult(taskName))

(* task.service.js:186-203 *)
cancelScheduledTask(taskName) ==
  LET id == taskName.taskId
      req == [taskId |-> id]
  IN IF id \notin DOMAIN tasks
     THEN /\ response' = Reply("cancel", req, <<"deleteTask">>,
                 errorHandler(WrappedError("Failed to cancel scheduled task", "NOT_FOUND")))
          /\ UNCHANGED <<tasks, cancelled>>
     ELSE /\ tasks' = [i \in DOMAIN tasks \ {id} |-> tasks[i]]
          /\ cancelled' = cancelled \cup {id}
          /\ response' = Reply("cancel", req, <<"deleteTask">>, CancelResult(taskName))

CancelTask ==
  /\ \E taskId \in TaskIdInputs : cancelScheduledTask(TaskPath(taskId))
  /\ UNCHANGED <<now, issued, published>>
  /\ UNCHANGED workerVars

(* ---------------------------------------------------------------------- *)
(* The queue's own delivery of a task                                      *)
(* ---------------------------------------------------------------------- *)
(* the tasks whose publish call has gone through *)
Fired == {published[i].via : i \in DOMAIN published} \ {ApiCaller}

(* at or after its schedule time the queue makes the task's HTTP call and  *)
(* counts the attempt; the call publishes the task's message               *)
DispatchTask(id) ==
  /\ id \in DOMAIN tasks
  /\ id \notin Fired
  /\ AtOrBefore(tasks[id].scheduleTime, now)
  /\ published' = Append(published,
         Publication(tasks[id].httpRequest.url, tasks[id].httpRequest.body, id))
  /\ tasks' = [tasks EXCEPT ![id].dispatchCount = @ + 1]
  /\ response' = NoResponse
  /\ UNCHANGED <<now, issued, cancelled>>
  /\ UNCHANGED workerVars

Dispatch == \E id \in DOMAIN tasks : DispatchTask(id)

(* the attempts so far that did not end in a publish *)
FailedAttempts ==
  Cardinality({a \in (DOMAIN tasks) \X (1..MaxFailedAttempts) :
                 a[2] <= tasks[a[1]].dispatchCount - (IF a[1] \in Fired THEN 1 ELSE 0)})

(* an attempt whose call is not accepted: the queue counts it and keeps    *)
(* the task for another attempt                                            *)
DispatchAttemptFails(id) ==
  /\ id \in DOMAIN tasks
  /\ id \notin Fired
  /\ AtOrBefore(tasks[id].scheduleTime, now)
  /\ FailedAttempts < MaxFailedAttempts
  /\ tasks' = [tasks EXCEPT ![id].dispatchCount = @ + 1]
  /\ response' = NoResponse
  /\ UNCHANGED <<now, issued, cancelled, published>>
  /\ UNCHANGED workerVars

DispatchFails == \E id \in DOMAIN tasks : DispatchAttemptFails(id)

(* the queue removes a task once its call has been answered with success *)
CompleteTask(id) ==
  /\ id \in DOMAIN tasks
  /\ id \in Fired
  /\ tasks' = [i \in DOMAIN tasks \ {id} |-> tasks[i]]
  /\ response' = NoResponse
  /\ UNCHANGED <<now, issued, cancelled, published>>
  /\ UNCHANGED workerVars

Complete == \E id \in DOMAIN tasks : CompleteTask(id)

(* ---------------------------------------------------------------------- *)
(* The backup workers (cloud functions), one run per message delivery      *)
(* ---------------------------------------------------------------------- *)
(* the deployed handlers; the QdrantDB function exists in two versions:    *)
(* one downloads the snapshot over the API, one polls for snapshot files   *)
Recipes == {"postgres", "mongodb", "questdb", "qdrantdb-download", "qdrantdb-poll"}

RecipeKind(r) ==
  CASE r = "postgres" -> "postgres"
    [] r = "mongodb" -> "mongodb"
    [] r = "questdb" -> "questdb"
    [] OTHER -> "qdrantdb"

(* the functions subscribed to a topic *)
Subscribers(topic) == {r \in Recipes : EnvTopic(RecipeKind(r)) = topic}

(* the timestamp token of a run: toISOString() with ':' and '.' replaced  *)
(* keeps the milliseconds; the QdrantDB token drops them                   *)
TimestampToken(r, t) ==
  IF RecipeKind(r) = "qdrantdb" THEN FloorToSeconds(t) ELSE t

(* the directory part of the object name the upload writes *)
UploadDir(r) ==
  CASE r = "postgres" -> KindText("postgres")
    [] r = "mongodb" -> KindText("mongodb")
    [] r = "questdb" -> KindText("questdb") \o <<"-", "b", "a", "c", "k", "u", "p">>
    [] OTHER -> KindText("qdrantdb")

ObjectName(dir, file) == [dir |-> dir, file |-> file]

(* the object name as characters: directory, '/', then the file name as    *)
(* one symbol                                                              *)
NameText(name) == name.dir \o <<"/", "f">>

(* the path of the compressed file on the VM: /tmp, the words of the       *)
(* recipe and the timestamp token                                          *)
compressedPath(r, timestamp) == [dir |-> "/tmp", file |-> [recipe |-> r, timestamp |-> timestamp]]

(* the object the upload step of a run creates *)
UploadName(r, timestamp) == ObjectName(UploadDir(r), [recipe |-> r, timestamp |-> timestamp])

NoName == ObjectName(<<>>, [recipe |-> "none", timestamp |-> InvalidDate])

(* the files and directories under /tmp and in the snapshot directories of *)
(* the VM that a successful backup command leaves behind: pg_dump writes   *)
(* the gzipped dump; mongodump's directory is removed once it is archived; *)
(* QuestDB gets its backup directory made and filled; the download script  *)
(* of the QdrantDB function is removed after it has run, the Qdrant        *)
(* snapshot and its downloaded copy stay                                   *)
backupCommandLeaves(r) ==
  CASE r = "postgres" -> {"compressed"}
    [] r = "mongodb" -> {"compressed"}
    [] r = "questdb" -> {"backupDir", "backupDir/*"}
    [] r = "qdrantdb-download" -> {"qdrantSnapshot", "localPath"}
    [] OTHER -> {}

(* the two files the readiness poll waits for *)
SnapshotFiles == {"snapshotPath", "checksumPath"}

(* the archive the upload step makes before it streams it to the bucket;   *)
(* the PostgreSQL and MongoDB uploads stream the file of the backup step   *)
compressCommandLeaves(r) ==
  IF r \in {"questdb", "qdrantdb-download", "qdrantdb-poll"} THEN {"compressed"} ELSE {}

(* what the rm of deleteLocalBackup removes; QuestDB's removes the         *)
(* contents of the backup directory and keeps the directory                *)
deleteCommandRemoves(r) ==
  CASE r = "postgres" -> {"compressed"}
    [] r = "mongodb" -> {"compressed"}
    [] r = "questdb" -> {"compressed", "backupDir/*"}
    [] r = "qdrantdb-download" -> {"localPath", "compressed"}
    [] OTHER -> {"compressed"} \cup SnapshotFiles

NoError == [step |-> "none"]

(* the setTimeout calls of waitForSnapshotFiles that have not fired: those *)
(* of checkSnapshotFiles itself and those of the closure of the exec error *)
(* path, which tests the attempts when it fires                            *)
NoTimers == [check |-> 0, recheck |-> 0]

NewRun(r, m) ==
  [recipe |-> r, message |-> m, pc |-> "secrets", timestamp |-> InvalidDate,
   uploaded |-> NoName, archived |-> {}, leftovers |-> {},
   cleanup |-> "none", snapshotDelete |-> "none",
   remote |-> {}, attempt |-> 0, error |-> NoError,
   wait |-> 0,
   sessions |-> {}, checks |-> {}, timers |-> NoTimers, pollSettled |-> FALSE]

WorkerInit ==
  /\ runs = <<>>
  /\ bucket = <<>>

(* Pub/Sub hands a published message to a function subscribed to its      *)
(* topic; delivery is at least once                                        *)
deliver(r, m, limit) ==
  /\ Len(runs) < limit
  /\ r \in Subscribers(published[m].topic)
  /\ runs' = Append(runs, NewRun(r, m))
  /\ response' = NoResponse
  /\ UNCHANGED <<now, tasks, issued, cancelled, published, bucket>>

(* index.js holds one version of the QdrantDB function at a time: a       *)
(* deployment runs either the downloading or the polling one               *)
DownloadDeployment == Recipes \ {"qdrantdb-poll"}

PollingDeployment == Recipes \ {"qdrantdb-download"}

Deliver ==
  \E m \in DOMAIN published, r \in DownloadDeployment : deliver(r, m, MaxInvocations)

DeliverPolling ==
  \E m \in DOMAIN published, r \in PollingDeployment : deliver(r, m, MaxInvocations)

(* deliveries that may repeat: Pub/Sub delivers a message again after a    *)
(* failed run, or as a duplicate while a run of it is still going          *)
DeliverRepeatedly ==
  \E m \in DOMAIN published, r \in DownloadDeployment : deliver(r, m, MaxDeliveries)

(* the secrets a handler reads, in the order it reads them *)
Secrets == {"cf-backup-ssh-key", "cf-vm-ip", "cf-vm-username"}

(* how step 1 can end: all three reads succeed, or the named read throws *)
SecretOutcomes == {"ok"} \cup Secrets

(* the error of a failed accessSecretVersion call, which the handler's     *)
(* catch rethrows                                                          *)
SecretError(secret) == [step |-> "secrets", secret |-> secret]

(* a step 1 that goes on without the username when its read fails *)
fetchSecretsLenient(n, outcome) ==
  /\ runs[n].pc = "secrets"
  /\ runs' = [runs EXCEPT ![n].pc = IF outcome \in {"ok", "cf-vm-username"} THEN "execute"
                                    ELSE "failed",
                           ![n].error = IF outcome = "ok" THEN NoError
                                        ELSE SecretError(outcome)]
  /\ response' = NoResponse
  /\ UNCHANGED <<now, tasks, issued, cancelled, published, bucket>>

(* a single trigger request and a single schedule request with the least  *)
(* delay, both accepted by their adapters                                  *)
TriggerOnce ==
  /\ \A i \in DOMAIN published : published[i].via /= ApiCaller
  /\ \E k \in Kinds : triggerBackup(k, TRUE)

ScheduleOnce ==
  /\ issued = {}
  /\ \E k \in Kinds : scheduleRoute(k, Num(MinDelayMinutes), TRUE)

(* every published message delivered to a subscriber once *)
DeliverOnce ==
  \E m \in DOMAIN published, r \in DownloadDeployment :
    /\ \A n \in DOMAIN runs : runs[n].message /= m
    /\ deliver(r, m, Len(published))

(* handler step 1: the three accessSecretVersion calls, awaited one after  *)
(* the other; the first that throws ends the handler                       *)
fetchSecrets(n, outcome) ==
  /\ runs[n].pc = "secrets"
  /\ runs' = [runs EXCEPT ![n].pc = IF outcome = "ok" THEN "execute" ELSE "failed",
                           ![n].error = IF outcome = "ok" THEN NoError
                                        ELSE SecretError(outcome)]
  /\ response' = NoResponse
  /\ UNCHANGED <<now, tasks, issued, cancelled, published, bucket>>

(* a step 2 that reads the message and takes no dump for a scheduled one *)
executeBackupManualOnly(n, ok) ==
  /\ runs[n].pc = "execute"
  /\ runs' = [runs EXCEPT ![n].pc = IF ~ok THEN "failed"
                                    ELSE IF runs[n].recipe = "qdrantdb-poll" THEN "poll"
                                    ELSE "upload",
                           ![n].timestamp = TimestampToken(runs[n].recipe, now),
                           ![n].remote =
                              IF ok /\ published[runs[n].message].data.triggeredBy = "manual"
                              THEN backupCommandLeaves(runs[n].recipe) ELSE {},
                           ![n].error = IF ok THEN NoError ELSE [step |-> "backup"]]
  /\ response' = NoResponse
  /\ UNCHANGED <<now, tasks, issued, cancelled, published, bucket>>

(* handler step 2: executeBackup / createAndDownloadSnapshot, up to the    *)
(* close of the backup command; the polling version then waits for the     *)
(* snapshot files before its promise settles.  A failing command is one    *)
(* that left nothing behind                                                *)
executeBackup(n, ok) ==
  /\ runs[n].pc = "execute"
  /\ runs' = [runs EXCEPT ![n].pc = IF ~ok THEN "failed"
                                    ELSE IF runs[n].recipe = "qdrantdb-poll" THEN "poll"
                                    ELSE "upload",
                           ![n].timestamp = TimestampToken(runs[n].recipe, now),
                           ![n].remote = IF ok THEN backupCommandLeaves(runs[n].recipe) ELSE {},
                           ![n].error = IF ok THEN NoError ELSE [step |-> "backup"]]
  /\ response' = NoResponse
  /\ UNCHANGED <<now, tasks, issued, cancelled, published, bucket>>

(* waitForSnapshotFiles *)
maxAttempts == 30

CheckOutcomes == {"found", "not-found", "exit-nonzero", "exec-error", "connection-error"}

(* the error waitForSnapshotFiles rejects with, which executeBackup passes *)
(* on and the handler rethrows                                             *)
AttemptsExhausted(outcome) == [step |-> "poll", after |-> maxAttempts, cause |-> outcome]

(* one round of checkSnapshotFiles that gives up one round later *)
checkSnapshotFilesOneMore(n, outcome) ==
  /\ runs[n].pc = "poll"
  /\ LET attempt == runs[n].attempt + 1
     IN runs' = IF outcome = "found"
                THEN [runs EXCEPT ![n].attempt = 0,
                                  ![n].pc = "upload",
                                  ![n].remote = SnapshotFiles]
                ELSE IF attempt > maxAttempts
                THEN [runs EXCEPT ![n].attempt = 0,
                                  ![n].pc = "failed",
                                  ![n].error = AttemptsExhausted(outcome)]
                ELSE [runs EXCEPT ![n].attempt = attempt]
  /\ response' = NoResponse
  /\ UNCHANGED <<now, tasks, issued, cancelled, published, bucket>>

(* one round of checkSnapshotFiles where running out of attempts is       *)
(* skipped over and the run goes on to its upload                          *)
checkSnapshotFilesSkipped(n, outcome) ==
  /\ runs[n].pc = "poll"
  /\ LET attempt == runs[n].attempt + 1
     IN runs' = IF outcome = "found"
                THEN [runs EXCEPT ![n].attempt = 0,
                                  ![n].pc = "upload",
                                  ![n].remote = SnapshotFiles]
                ELSE IF attempt >= maxAttempts
                THEN [runs EXCEPT ![n].attempt = 0,
                                  ![n].pc = "upload",
                                  ![n].error = AttemptsExhausted(outcome)]
                ELSE [runs EXCEPT ![n].attempt = attempt]
  /\ response' = NoResponse
  /\ UNCHANGED <<now, tasks, issued, cancelled, published, bucket>>

(* waitForSnapshotFiles: the first wait and the longest *)
initialDelay == 2000

maxDelay == 10000

(* initialDelay * Math.pow(1.5, k), exact up to the first value that is    *)
(* not below maxDelay; the power only grows with k, so from there on the   *)
(* value returned stands for one that is not below maxDelay either         *)
RECURSIVE ScaledPow(_)
ScaledPow(k) ==
  IF k = 0 THEN initialDelay
  ELSE LET p == ScaledPow(k - 1)
       IN IF p >= maxDelay THEN p ELSE (p * 3) \div 2

(* Math.min(initialDelay * Math.pow(1.5, attempt - 1), maxDelay) *)
backoffDelay(attempt) ==
  IF ScaledPow(attempt - 1) < maxDelay THEN ScaledPow(attempt - 1) ELSE maxDelay

(* one round of checkSnapshotFiles that tries again at once after a        *)
(* connection error                                                        *)
checkSnapshotFilesHasty(n, outcome) ==
  /\ runs[n].pc = "poll"
  /\ LET attempt == runs[n].attempt + 1
     IN runs' = IF outcome = "found"
                THEN [runs EXCEPT ![n].attempt = 0,
                                  ![n].wait = 0,
                                  ![n].pc = "upload",
                                  ![n].remote = SnapshotFiles]
                ELSE IF attempt >= maxAttempts
                THEN [runs EXCEPT ![n].attempt = 0,
                                  ![n].wait = 0,
                                  ![n].pc = "failed",
                                  ![n].error = AttemptsExhausted(outcome)]
                ELSE [runs EXCEPT ![n].attempt = attempt,
                                  ![n].wait = IF outcome = "connection-error" THEN 0 ELSE backoffDelay(attempt)]
  /\ response' = NoResponse
  /\ UNCHANGED <<now, tasks, issued, cancelled, published, bucket>>

(* one round of checkSnapshotFiles: a new session, the test command, and   *)
(* then resolve, reject or the timer for the next round, set to the wait   *)
(* computed from the counter; the counter is a local of                    *)
(* waitForSnapshotFiles and is gone once the promise has settled           *)
checkSnapshotFiles(n, outcome) ==
  /\ runs[n].pc = "poll"
  /\ LET attempt == runs[n].attempt + 1
     IN runs' = IF outcome = "found"
                THEN [runs EXCEPT ![n].attempt = 0,
                                  ![n].wait = 0,
                                  ![n].pc = "upload",
                                  ![n].remote = SnapshotFiles]
                ELSE IF attempt >= maxAttempts
                THEN [runs EXCEPT ![n].attempt = 0,
                                  ![n].wait = 0,
                                  ![n].pc = "failed",
                                  ![n].error = AttemptsExhausted(outcome)]
                ELSE [runs EXCEPT ![n].attempt = attempt,
                                  ![n].wait = backoffDelay(attempt)]
  /\ response' = NoResponse
  /\ UNCHANGED <<now, tasks, issued, cancelled, published, bucket>>

(* how uploadBackupToGCS can end: the write stream finishes, or the        *)
(* session fails to connect, the compress command exits non-zero, the      *)
(* sftp subsystem is refused, the read stream or the write stream errors   *)
UploadOutcomes ==
  {"finish", "connection-error", "compress-failed", "sftp-error", "read-error", "write-error"}

(* the runs whose backup data the archive of run n holds: QuestDB archives *)
(* the whole backup directory, the others the file of their own run        *)
Archived(n) ==
  IF runs[n].recipe = "questdb"
  THEN {m \in DOMAIN runs : "backupDir/*" \in runs[m].remote}
  ELSE {n}

(* the failed runs, other than n, whose data the archive of run n holds *)
Leftovers(n) == {m \in Archived(n) \ {n} : runs[m].pc = "failed"}

(* what the upload step leaves on the VM: nothing new when the session     *)
(* never connected, else the archive of the compress command               *)
AfterUploadRemote(n, outcome) ==
  IF outcome = "connection-error" THEN runs[n].remote
  ELSE runs[n].remote \cup compressCommandLeaves(runs[n].recipe)

(* the upload step with an object that shows up although the read stream   *)
(* broke off                                                               *)
uploadBackupToGCSPartial(n, outcome) ==
  LET name == UploadName(runs[n].recipe, runs[n].timestamp)
  IN /\ runs[n].pc = "upload"
     /\ outcome = "compress-failed" => compressCommandLeaves(runs[n].recipe) /= {}
     /\ IF outcome \in {"finish", "read-error"}
        THEN bucket' = [o \in DOMAIN bucket \cup {name} |->
                          IF o = name THEN [timeCreated |-> now, updated |-> now]
                          ELSE bucket[o]]
        ELSE bucket' = bucket
     /\ IF outcome = "finish"
        THEN runs' = [runs EXCEPT ![n].pc = "cleanup", ![n].uploaded = name,
                                  ![n].archived = Archived(n),
                                  ![n].leftovers = Leftovers(n),
                                  ![n].remote = AfterUploadRemote(n, outcome)]
        ELSE runs' = [runs EXCEPT ![n].pc = "failed",
                                  ![n].remote = AfterUploadRemote(n, outcome),
                                  ![n].error = [step |-> "upload", cause |-> outcome]]
     /\ response' = NoResponse
     /\ UNCHANGED <<now, tasks, issued, cancelled, published>>

(* a handler that goes on to its cleanup when the upload has failed *)
uploadBackupToGCSThenCleanup(n, outcome) ==
  LET name == UploadName(runs[n].recipe, runs[n].timestamp)
  IN /\ runs[n].pc = "upload"
     /\ outcome = "compress-failed" => compressCommandLeaves(runs[n].recipe) /= {}
     /\ IF outcome = "finish"
        THEN /\ bucket' = [o \in DOMAIN bucket \cup {name} |->
                             IF o = name THEN [timeCreated |-> now, updated |-> now]
                             ELSE bucket[o]]
             /\ runs' = [runs EXCEPT ![n].pc = "cleanup", ![n].uploaded = name,
                                      ![n].archived = Archived(n),
                                      ![n].leftovers = Leftovers(n),
                                      ![n].remote = AfterUploadRemote(n, outcome)]
        ELSE /\ bucket' = bucket
             /\ runs' = [runs EXCEPT ![n].pc = "cleanup",
                                      ![n].remote = AfterUploadRemote(n, outcome),
                                      ![n].error = [step |-> "upload", cause |-> outcome]]
     /\ response' = NoResponse
     /\ UNCHANGED <<now, tasks, issued, cancelled, published>>

(* handler step 3: uploadBackupToGCS.  The promise resolves on the finish  *)
(* event of the write stream, when the object exists; every error event    *)
(* rejects it, and a write stream that has not finished has not made an    *)
(* object                                                                  *)
uploadBackupToGCS(n, outcome) ==
  LET name == UploadName(runs[n].recipe, runs[n].timestamp)
  IN /\ runs[n].pc = "upload"
     /\ outcome = "compress-failed" => compressCommandLeaves(runs[n].recipe) /= {}
     /\ IF outcome = "finish"
        THEN /\ bucket' = [o \in DOMAIN bucket \cup {name} |->
                             IF o = name THEN [timeCreated |-> now, updated |-> now]
                             ELSE bucket[o]]
             /\ runs' = [runs EXCEPT ![n].pc = "cleanup", ![n].uploaded = name,
                                      ![n].archived = Archived(n),
                                      ![n].leftovers = Leftovers(n),
                                      ![n].remote = AfterUploadRemote(n, outcome)]
        ELSE /\ bucket' = bucket
             /\ runs' = [runs EXCEPT ![n].pc = "failed",
                                      ![n].remote = AfterUploadRemote(n, outcome),
                                      ![n].error = [step |-> "upload", cause |-> outcome]]
     /\ response' = NoResponse
     /\ UNCHANGED <<now, tasks, issued, cancelled, published>>

(* what the handler does once `await deleteLocalBackup(...)` settles: a    *)
(* rejection is not caught before the handler's own catch, which rethrows  *)
AfterCleanup(r, ok) ==
  IF ~ok THEN "failed"
  ELSE IF r = "qdrantdb-download" THEN "snapshotCleanup"
  ELSE "done"

(* the files of run m that the deleteCommand of run n removes: its own,    *)
(* and for QuestDB, whose backup directory is the same for every run, the  *)
(* contents of that directory whichever run put them there                 *)
RemovedFrom(m, n) ==
  IF m = n THEN deleteCommandRemoves(runs[n].recipe)
  ELSE IF runs[n].recipe = "questdb" /\ runs[m].recipe = "questdb" THEN {"backupDir/*"}
  ELSE {}

(* a cleanup that does not wait for the upload to settle *)
deleteLocalBackupEarly(n, ok) ==
  /\ runs[n].pc \in {"upload", "cleanup"}
  /\ runs' = [m \in DOMAIN runs |->
               [runs[m] EXCEPT
                  !.pc = IF m = n THEN AfterCleanup(runs[n].recipe, ok) ELSE @,
                  !.cleanup = IF m = n THEN (IF ok THEN "ok" ELSE "failed") ELSE @,
                  !.remote = IF ok THEN @ \ RemovedFrom(m, n) ELSE @,
                  !.error = IF m = n /\ ~ok THEN [step |-> "cleanup"] ELSE @]]
  /\ response' = NoResponse
  /\ UNCHANGED <<now, tasks, issued, cancelled, published, bucket>>

(* handler step 4: deleteLocalBackup *)
deleteLocalBackup(n, ok) ==
  /\ runs[n].pc = "cleanup"
  /\ runs' = [m \in DOMAIN runs |->
               [runs[m] EXCEPT
                  !.pc = IF m = n THEN AfterCleanup(runs[n].recipe, ok) ELSE @,
                  !.cleanup = IF m = n THEN (IF ok THEN "ok" ELSE "failed") ELSE @,
                  !.remote = IF ok THEN @ \ RemovedFrom(m, n) ELSE @,
                  !.error = IF m = n /\ ~ok THEN [step |-> "cleanup"] ELSE @]]
  /\ response' = NoResponse
  /\ UNCHANGED <<now, tasks, issued, cancelled, published, bucket>>

SnapshotDeleteOutcomes == {"ok", "exit-nonzero", "connection-error", "exec-error"}

(* handler step 5 of the download version: deleteQdrantSnapshot resolves   *)
(* on a non-zero exit and on a connection error, and rejects when exec     *)
(* itself fails                                                            *)
deleteQdrantSnapshot(n, outcome) ==
  /\ runs[n].pc = "snapshotCleanup"
  /\ runs' = [runs EXCEPT ![n].pc = IF outcome = "exec-error" THEN "failed" ELSE "done",
                           ![n].snapshotDelete = outcome,
                           ![n].remote = IF outcome = "ok" THEN @ \ {"qdrantSnapshot"} ELSE @,
                           ![n].error = IF outcome = "exec-error"
                                        THEN [step |-> "snapshotCleanup"] ELSE NoError]
  /\ response' = NoResponse
  /\ UNCHANGED <<now, tasks, issued, cancelled, published, bucket>>

FetchSecrets == \E n \in DOMAIN runs, outcome \in SecretOutcomes : fetchSecrets(n, outcome)

ExecuteBackup == \E n \in DOMAIN runs, ok \in BOOLEAN : executeBackup(n, ok)

UploadBackup == \E n \in DOMAIN runs, outcome \in UploadOutcomes : uploadBackupToGCS(n, outcome)

DeleteLocalBackup == \E n \in DOMAIN runs, ok \in BOOLEAN : deleteLocalBackup(n, ok)

DeleteQdrantSnapshot ==
  \E n \in DOMAIN runs, outcome \in SnapshotDeleteOutcomes : deleteQdrantSnapshot(n, outcome)

CheckSnapshotFiles ==
  \E n \in DOMAIN runs, outcome \in CheckOutcomes : checkSnapshotFiles(n, outcome)

(* ---------------------------------------------------------------------- *)
(* The polling QdrantDB worker, event by event: the sessions it opens and  *)
(* the callbacks of each session                                           *)
(* ---------------------------------------------------------------------- *)
(* the most checks in flight, lost or scheduled at which a live session is *)
(* still taken to lose its connection                                      *)
MaxPendingChecks == 2

(* a check session is connecting, has called exec and waits for its        *)
(* callback, or has its command running; after an error event the session  *)
(* is gone while the callback of its exec, or the close event of its       *)
(* stream, is still to be delivered                                        *)
CheckStates == {"connecting", "exec", "running", "lost-exec", "lost-running"}

(* the check sessions of run n that are connected or connecting *)
ChecksInFlight(n) == {c \in runs[n].checks : c.st \in {"connecting", "exec", "running"}}

(* the check sessions of run n that are open *)
ChecksOpen(n) == {c \in runs[n].checks : c.st \in {"exec", "running"}}

ChecksScheduled(n) == runs[n].timers.check + runs[n].timers.recheck

ChecksPending(n) == Cardinality(runs[n].checks) + ChecksScheduled(n)

(* the sessions run n has open *)
OpenSessions(n) == runs[n].sessions \cup {<<"check", c.id>> : c \in ChecksOpen(n)}

(* checkSnapshotFiles(): attempt++, new Client(), conn.connect() *)
startCheck(run) ==
  [run EXCEPT !.attempt = @ + 1,
              !.checks = @ \cup {[id |-> run.attempt + 1, st |-> "connecting"]}]

(* resolve or reject of waitForSnapshotFiles and, the first time, the      *)
(* continuation of executeBackup after its await: conn.end() on the backup *)
(* session, then resolve or reject, which does nothing when executeBackup  *)
(* has been rejected before                                                *)
settlePoll(run, outcome) ==
  IF run.pollSettled THEN run
  ELSE [run EXCEPT !.pollSettled = TRUE,
                   !.sessions = @ \ {"backup"},
                   !.pc = IF run.pc /= "poll" THEN @
                          ELSE IF outcome = "found" THEN "upload" ELSE "failed",
                   !.remote = IF run.pc = "poll" /\ outcome = "found" THEN SnapshotFiles ELSE @,
                   !.error = IF run.pc = "poll" /\ outcome /= "found"
                             THEN AttemptsExhausted(outcome) ELSE @]

(* `if (attempt >= maxAttempts) reject(...) else setTimeout(checkSnapshotFiles, delay)` *)
rejectOrSchedule(run, outcome) ==
  IF run.attempt >= maxAttempts THEN settlePoll(run, outcome)
  ELSE [run EXCEPT !.timers.check = @ + 1]

WithoutCheck(run, c) == [run EXCEPT !.checks = @ \ {c}]

WithCheckState(run, c, st) ==
  [run EXCEPT !.checks = (@ \ {c}) \cup {[id |-> c.id, st |-> st]}]

SessionStep(n, run) ==
  /\ runs' = [runs EXCEPT ![n] = run]
  /\ response' = NoResponse
  /\ UNCHANGED <<now, tasks, issued, cancelled, published, bucket>>

(* executeBackup of the polling version up to its await: the session is    *)
(* opened, the snapshot command runs and closes, and with a snapshot name  *)
(* waitForSnapshotFiles starts its first check while the session of        *)
(* executeBackup stays open                                                *)
executeSnapshot(n, ok) ==
  /\ runs[n].pc = "execute"
  /\ runs[n].recipe = "qdrantdb-poll"
  /\ SessionStep(n,
       IF ok
       THEN startCheck([runs[n] EXCEPT !.pc = "poll",
                                       !.timestamp = TimestampToken(runs[n].recipe, now),
                                       !.sessions = @ \cup {"backup"}])
       ELSE [runs[n] EXCEPT !.pc = "failed",
                            !.timestamp = TimestampToken(runs[n].recipe, now),
                            !.error = [step |-> "backup"]])

(* the error event of the session of executeBackup while it waits for the  *)
(* poll: reject(err); waitForSnapshotFiles is not told                     *)
backupSessionError(n) ==
  /\ runs[n].pc = "poll"
  /\ "backup" \in runs[n].sessions
  /\ SessionStep(n, [runs[n] EXCEPT !.pc = "failed",
                                    !.sessions = @ \ {"backup"},
                                    !.error = [step |-> "backup", cause |-> "connection-error"]])

(* conn.on('ready'): conn.exec(checkCommand, ...) *)
checkReady(n, c) ==
  /\ c.st = "connecting"
  /\ SessionStep(n, WithCheckState(runs[n], c, "exec"))

(* conn.on('error') of a check session: conn.end(), then reject or the     *)
(* timer.  Before ready the connection was never made; after ready the     *)
(* connection is lost and the pending callback of exec, or the close event *)
(* of the stream, is delivered as well                                     *)
checkSessionError(n, c) ==
  /\ c.st \in {"connecting", "exec", "running"}
  /\ c.st /= "connecting" => ChecksPending(n) < MaxPendingChecks
  /\ SessionStep(n,
       rejectOrSchedule(
         IF c.st = "connecting" THEN WithoutCheck(runs[n], c)
         ELSE WithCheckState(runs[n], c, IF c.st = "exec" THEN "lost-exec" ELSE "lost-running"),
         "connection-error"))

(* the callback of conn.exec: with an error, conn.end() and the timer      *)
(* whose closure tests the attempts; with a stream, the command runs       *)
execCallback(n, c, err) ==
  /\ c.st \in {"exec", "lost-exec"}
  /\ c.st = "lost-exec" => err
  /\ SessionStep(n,
       IF err THEN [WithoutCheck(runs[n], c) EXCEPT !.timers.recheck = @ + 1]
       ELSE WithCheckState(runs[n], c, "running"))

CloseOutcomes == {"found", "not-found", "exit-nonzero"}

(* stream.on('close'): conn.end(), then resolve, reject or the timer; the  *)
(* stream of a lost connection closes without an exit code                 *)
streamClose(n, c, outcome) ==
  /\ c.st \in {"running", "lost-running"}
  /\ c.st = "lost-running" => outcome = "exit-nonzero"
  /\ SessionStep(n,
       IF outcome = "found" THEN settlePoll(WithoutCheck(runs[n], c), outcome)
       ELSE rejectOrSchedule(WithoutCheck(runs[n], c), outcome))

(* a timer of setTimeout(checkSnapshotFiles, delay) fires *)
checkTimerFires(n) ==
  /\ runs[n].timers.check > 0
  /\ SessionStep(n, startCheck([runs[n] EXCEPT !.timers.check = @ - 1]))

(* the timer of the exec error path fires *)
recheckTimerFires(n) ==
  /\ runs[n].timers.recheck > 0
  /\ LET run == [runs[n] EXCEPT !.timers.recheck = @ - 1]
     IN SessionStep(n, IF run.attempt >= maxAttempts THEN settlePoll(run, "exec-error")
                       ELSE startCheck(run))

DeliverPollingWorker ==
  \E m \in DOMAIN published : deliver("qdrantdb-poll", m, MaxInvocations)

ExecuteSnapshot == \E n \in DOMAIN runs, ok \in BOOLEAN : executeSnapshot(n, ok)

BackupSessionError == \E n \in DOMAIN runs : backupSessionError(n)

CheckReady == \E n \in DOMAIN runs : \E c \in runs[n].checks : checkReady(n, c)

CheckSessionError == \E n \in DOMAIN runs : \E c \in runs[n].checks : checkSessionError(n, c)

ExecCallback ==
  \E n \in DOMAIN runs : \E c \in runs[n].checks : \E err \in BOOLEAN : execCallback(n, c, err)

StreamClose ==
  \E n \in DOMAIN runs : \E c \in runs[n].checks : \E outcome \in CloseOutcomes :
    streamClose(n, c, outcome)

CheckTimerFires == \E n \in DOMAIN runs : checkTimerFires(n)

RecheckTimerFires == \E n \in DOMAIN runs : recheckTimerFires(n)

(* ---------------------------------------------------------------------- *)
(* GET /backup/{db}/list                                                   *)
(* ---------------------------------------------------------------------- *)
(* the prefix of listQdrantDBBackups, which bucket.service exports *)
listQdrantDBBackupsPrefix == KindText("qdrantdb") \o <<"/">>

(* the prefix each list function passes to getFiles *)
ListPrefix(k) ==
  IF k = "qdrantdb" THEN listQdrantDBBackupsPrefix ELSE KindText(k) \o <<"/">>

(* String.prototype.startsWith, the bucket's prefix match *)
StartsWith(text, prefix) ==
  Len(prefix) <= Len(text) /\ SubSeq(text, 1, Len(prefix)) = prefix

BackupEntry(name) ==
  [name |-> name, created |-> bucket[name].timeCreated, updated |-> bucket[name].updated]

(* Array.prototype.sort with (a, b) => b.created - a.created: stable *)
RECURSIVE InsertByCreatedDesc(_, _)
InsertByCreatedDesc(sorted, e) ==
  IF sorted = <<>> THEN <<e>>
  ELSE IF Before(sorted[Len(sorted)].created, e.created)
       THEN Append(InsertByCreatedDesc(SubSeq(sorted, 1, Len(sorted) - 1), e),
                   sorted[Len(sorted)])
       ELSE Append(sorted, e)

RECURSIVE SortByCreatedDesc(_)
SortByCreatedDesc(entries) ==
  IF entries = <<>> THEN <<>>
  ELSE InsertByCreatedDesc(SortByCreatedDesc(SubSeq(entries, 1, Len(entries) - 1)),
                           entries[Len(entries)])

FilesUnder(prefix) == {o \in DOMAIN bucket : StartsWith(NameText(o), prefix)}

(* the orders in which getFiles may return the matching objects *)
FileOrders(prefix) ==
  {q \in [1..Cardinality(FilesUnder(prefix)) -> FilesUnder(prefix)] :
     \A i, j \in DOMAIN q : q[i] = q[j] => i = j}

(* a listing that returns the files in the order getFiles gave them *)
listBackupsUnsorted(k, files) ==
  LET backups == [i \in DOMAIN files |-> BackupEntry(files[i])]
  IN [status |-> 200,
      body |-> [success |-> TRUE, count |-> Len(backups), data |-> backups,
                message |-> <<k, "backups listed successfully">>]]

(* listPostgresBackups, listMongoDBBackups, listQuestDBBackups *)
listBackups(k, files) ==
  LET backups == [i \in DOMAIN files |-> BackupEntry(files[i])]
  IN [status |-> 200,
      body |-> [success |-> TRUE, count |-> Len(backups), data |-> SortByCreatedDesc(backups),
                message |-> <<k, "backups listed successfully">>]]

ListArtifacts ==
  /\ \E k \in Kinds : \E files \in FileOrders(ListPrefix(k)) :
       response' = Reply("listBackups", [database |-> k], <<"getFiles">>, listBackups(k, files))
  /\ UNCHANGED <<now, tasks, issued, cancelled, published, runs, bucket>>

(* ---------------------------------------------------------------------- *)
(* The bucket as the API sees it: objects appear as uploads finish         *)
(* ---------------------------------------------------------------------- *)
(* the write stream of an upload finishes: the object exists from then on  *)
StoreUpload(r) ==
  LET name == UploadName(r, TimestampToken(r, now))
  IN /\ Cardinality(DOMAIN bucket) < MaxObjects
     /\ name \notin DOMAIN bucket
     /\ bucket' = [o \in DOMAIN bucket \cup {name} |->
                     IF o = name THEN [timeCreated |-> now, updated |-> now]
                     ELSE bucket[o]]
     /\ response' = NoResponse
     /\ UNCHANGED <<now, tasks, issued, cancelled, published, runs>>

UploadFinishes == \E r \in Recipes : StoreUpload(r)

(* ---------------------------------------------------------------------- *)
(* GET /backup/download and generateDownloadUrl                            *)
(* ---------------------------------------------------------------------- *)
(* parseInt: the number its leading digits spell, NaN without any *)
RECURSIVE LeadingDigits(_)
LeadingDigits(s) ==
  IF s = <<>> \/ s[1] > 9 THEN <<>> ELSE <<s[1]>> \o LeadingDigits(Tail(s))

parseInt(v) ==
  IF v.t = "string" /\ LeadingDigits(v.s) /= <<>> THEN Num(DigitsValue(LeadingDigits(v.s)))
  ELSE NaN

DefaultExpiresInMinutes == 60

(* an object name under which nothing was ever stored *)
MissingName == ObjectName(KindText("postgres"), [recipe |-> "postgres", timestamp |-> InvalidDate])

FileNameInputs == DOMAIN bucket \cup {MissingName, Undefined}

ExpiresInputs == {Undefined, Str(<<>>), Str(<<0>>), Str(<<3, 0>>), Str(<<10>>)}

(* Date.now() + expiresInMinutes * 60 * 1000 *)
ExpiresAt(t, minutes) ==
  IF minutes.t = "number" THEN Instant(t.min + minutes.n, t.ms) ELSE InvalidDate

DownloadFailure(cause) == errorHandler(WrappedError("Failed to generate download URL", cause))

(* a URL generator that signs without looking whether the object exists *)
generateDownloadUrlUnchecked(fileName, expiresInMinutes, signOk) ==
  LET minutes == IF expiresInMinutes = Undefined THEN Num(DefaultExpiresInMinutes)
                 ELSE expiresInMinutes
      expires == ExpiresAt(now, minutes)
  IN IF expires = InvalidDate \/ ~signOk
     THEN [calls |-> <<"getSignedUrl">>,
           res |-> DownloadFailure(IF signOk THEN "Invalid time value" ELSE "UNAVAILABLE")]
     ELSE [calls |-> <<"getSignedUrl">>,
           res |-> [status |-> 200,
                    body |-> [success |-> TRUE, fileName |-> fileName,
                              signedUrl |-> [file |-> fileName, action |-> "read",
                                             expires |-> expires],
                              expiresAt |-> expires, expiresInMinutes |-> minutes,
                              message |-> "Signed URL generated successfully"]]]

(* generateDownloadUrl; signOk is the outcome of the adapter's signing *)
generateDownloadUrl(fileName, expiresInMinutes, signOk) ==
  LET minutes == IF expiresInMinutes = Undefined THEN Num(DefaultExpiresInMinutes)
                 ELSE expiresInMinutes
      expires == ExpiresAt(now, minutes)
  IN IF fileName \notin DOMAIN bucket
     THEN [calls |-> <<"exists">>, res |-> DownloadFailure("File not found")]
     ELSE IF expires = InvalidDate \/ ~signOk
     THEN [calls |-> <<"exists", "getSignedUrl">>,
           res |-> DownloadFailure(IF signOk THEN "Invalid time value" ELSE "UNAVAILABLE")]
     ELSE [calls |-> <<"exists", "getSignedUrl">>,
           res |-> [status |-> 200,
                    body |-> [success |-> TRUE, fileName |-> fileName,
                              signedUrl |-> [file |-> fileName, action |-> "read",
                                             expires |-> expires],
                              expiresAt |-> expires, expiresInMinutes |-> minutes,
                              message |-> "Signed URL generated successfully"]]]

(* backup.routes.js: GET /download *)
downloadRoute(fileName, expiresInMinutes, signOk) ==
  LET req == [fileName |-> fileName, expiresInMinutes |-> expiresInMinutes]
      expiresMinutes == IF Truthy(expiresInMinutes) THEN parseInt(expiresInMinutes)
                        ELSE Undefined
      out == generateDownloadUrl(fileName, expiresMinutes, signOk)
  IN /\ IF fileName = Undefined
        THEN response' = Reply("download", req, <<>>,
                 [status |-> 400,
                  body |-> [success |-> FALSE,
                            message |-> "fileName query parameter is required"]])
        ELSE response' = Reply("download", req, out.calls, out.res)
     /\ UNCHANGED <<now, tasks, issued, cancelled, published, runs, bucket>>

GenerateDownloadURL ==
  \E fileName \in FileNameInputs, e \in ExpiresInputs, signOk \in BOOLEAN :
    downloadRoute(fileName, e, signOk)

(* ---------------------------------------------------------------------- *)
(* The router: authenticateApiKey in front of the route handlers           *)
(* ---------------------------------------------------------------------- *)
(* env.API_KEY *)
ApiKey == Str(<<"k", "e", "y">>)

(* the x-api-key header: absent, empty, another key, the key *)
ApiKeyInputs == {Undefined, Str(<<>>), Str(<<"x">>), ApiKey}

(* the routes of backup.routes.js, the four kinds of a route taken as one *)
Routes ==
  {"trigger", "schedule", "list", "tasks", "taskDetails", "cancel", "download", "delete",
   "domain", "health"}

(* a router that leaves the schedule routes without the key check *)
RouteMiddlewareScheduleOpen(route) ==
  IF route \in {"health", "schedule"} THEN <<>> ELSE <<"authenticateApiKey">>

(* the middleware each route is registered with, before its handler *)
RouteMiddleware(route) ==
  IF route = "health" THEN <<>> ELSE <<"authenticateApiKey">>

(* next(): no response yet, the handler runs *)
CallNext == [status |-> 0, body |-> [success |-> FALSE]]

authenticateApiKey(apiKey) ==
  IF ~Truthy(apiKey)
  THEN [status |-> 401,
        body |-> [success |-> FALSE,
                  error |-> "API key is required. Provide x-api-key header."]]
  ELSE IF apiKey /= ApiKey
  THEN [status |-> 403, body |-> [success |-> FALSE, error |-> "Invalid API key"]]
  ELSE CallNext

(* a request reaches the router and runs through the middleware of its     *)
(* route                                                                   *)
receive(route, apiKey) ==
  LET verdict == IF RouteMiddleware(route) = <<>> THEN CallNext
                 ELSE authenticateApiKey(apiKey)
  IN /\ response' = Reply("request", [route |-> route, apiKey |-> apiKey], <<>>, verdict)
     /\ UNCHANGED <<now, tasks, issued, cancelled, published, runs, bucket>>

Receive == \E route \in Routes, apiKey \in ApiKeyInputs : receive(route, apiKey)

(* the middleware of the route has called next() *)
Pending(route) ==
  /\ response.op = "request"
  /\ response.req.route = route
  /\ response.status = CallNext.status

(* GET /backup/health *)
Health ==
  /\ Pending("health")
  /\ response' = Reply("health", response.req, <<>>,
                        [status |-> 200,
                         body |-> [success |-> TRUE, message |-> "Backup API is running",
                                   timestamp |-> now]])
  /\ UNCHANGED <<now, tasks, issued, cancelled, published, runs, bucket>>

HandleTrigger == Pending("trigger") /\ TriggerImmediate

HandleSchedule == Pending("schedule") /\ ScheduleDelayed

HandleTasks == Pending("tasks") /\ ListScheduledTasks

HandleTaskDetails == Pending("taskDetails") /\ GetTaskDetails

HandleCancel == Pending("cancel") /\ CancelTask

HandleList == Pending("list") /\ ListArtifacts

HandleDownload == Pending("download") /\ GenerateDownloadURL

(* ---------------------------------------------------------------------- *)
(* Specifications                                                          *)
(* ---------------------------------------------------------------------- *)
Init == ApiInit /\ WorkerInit

(* the API with the task queue *)
Next ==
  \/ Tick
  \/ TriggerImmediate
  \/ ScheduleDelayed
  \/ ListScheduledTasks
  \/ GetTaskDetails
  \/ CancelTask
  \/ Dispatch
  \/ Complete

Spec == Init /\ [][Next]_vars

(* manual triggers, the workers they start and the bucket *)
WorkerNext ==
  \/ Tick
  \/ TriggerImmediate
  \/ Deliver
  \/ FetchSecrets
  \/ ExecuteBackup
  \/ UploadBackup
  \/ DeleteLocalBackup
  \/ DeleteQdrantSnapshot

SpecWorker == Init /\ [][WorkerNext]_vars

(* the worker runs alone, while the clock stands *)
RunNext ==
  \/ TriggerImmediate
  \/ Deliver
  \/ FetchSecrets
  \/ ExecuteBackup
  \/ UploadBackup
  \/ DeleteLocalBackup
  \/ DeleteQdrantSnapshot

SpecRun == Init /\ [][RunNext]_vars

(* the worker runs with repeated deliveries *)
RetryNext ==
  \/ Tick
  \/ TriggerImmediate
  \/ DeliverRepeatedly
  \/ FetchSecrets
  \/ ExecuteBackup
  \/ UploadBackup
  \/ DeleteLocalBackup
  \/ DeleteQdrantSnapshot

SpecRetry == Init /\ [][RetryNext]_vars

(* requests with their x-api-key header, through the router *)
AuthNext ==
  \/ Receive
  \/ Health
  \/ HandleTrigger
  \/ HandleSchedule
  \/ HandleTasks
  \/ HandleTaskDetails
  \/ HandleCancel
  \/ HandleList
  \/ HandleDownload

SpecAuth == Init /\ [][AuthNext]_vars

(* schedule requests in quick succession, the queue and its listing *)
ScheduleNext ==
  \/ Tick
  \/ ScheduleConcurrently
  \/ ListScheduledTasks
  \/ Dispatch
  \/ DispatchFails

SpecSchedule == Init /\ [][ScheduleNext]_vars

(* the task service called directly, and the queue *)
TaskServiceNext ==
  \/ Tick
  \/ ScheduleBackupTaskCalled
  \/ Dispatch
  \/ DispatchFails
  \/ Complete

SpecTaskService == Init /\ [][TaskServiceNext]_vars

(* the stored backups and the requests that read them *)
StoreNext ==
  \/ Tick
  \/ UploadFinishes
  \/ ListArtifacts
  \/ GenerateDownloadURL

SpecStore == Init /\ [][StoreNext]_vars

(* manual triggers and the runs of the polling QdrantDB function; every   *)
(* round of the poll ends in an event of its session or in its timer, so   *)
(* a poll that can take a round eventually takes it                        *)
PollNext ==
  \/ TriggerImmediate
  \/ DeliverPolling
  \/ FetchSecrets
  \/ ExecuteBackup
  \/ CheckSnapshotFiles
  \/ UploadBackup
  \/ DeleteLocalBackup

SpecPoll == Init /\ [][PollNext]_vars /\ WF_vars(CheckSnapshotFiles)

(* one manual trigger, one scheduled task, and one run for each message    *)
(* they publish                                                            *)
OriginNext ==
  \/ Tick
  \/ TriggerOnce
  \/ ScheduleOnce
  \/ Dispatch
  \/ DeliverOnce
  \/ FetchSecrets
  \/ ExecuteBackup
  \/ UploadBackup
  \/ DeleteLocalBackup
  \/ DeleteQdrantSnapshot

SpecOrigin == Init /\ [][OriginNext]_vars

(* the polling QdrantDB worker with the events of its sessions *)
SessionNext ==
  \/ TriggerImmediate
  \/ DeliverPollingWorker
  \/ FetchSecrets
  \/ ExecuteSnapshot
  \/ BackupSessionError
  \/ CheckReady
  \/ CheckSessionError
  \/ ExecCallback
  \/ StreamClose
  \/ CheckTimerFires
  \/ RecheckTimerFires
  \/ UploadBackup
  \/ DeleteLocalBackup

SpecSession == Init /\ [][SessionNext]_vars

(* ---------------------------------------------------------------------- *)
(* Properties                                                              *)
(* ---------------------------------------------------------------------- *)
(* a delay that is missing, or a number (after ToNumber) outside           *)
(* [MinDelayMinutes, MaxDelayMinutes]                                      *)
OutsideRange(d) ==
  \/ d = Undefined
  \/ d = Null
  \/ /\ ToNumber(d).t = "number"
     /\ (ToNumber(d).n < MinDelayMinutes \/ ToNumber(d).n > MaxDelayMinutes)

(* C1: every schedule request, for any of the four kinds, whose            *)
(* delayMinutes is missing or outside [1, 43200] is answered 400 with      *)
(* success=false, makes no adapter call, and leaves the scheduled tasks    *)
(* unchanged.                                                              *)
C1_InvalidDelayRejected ==
  [][ (response'.op = "schedule" /\ OutsideRange(response'.req.delayMinutes))
        => /\ response'.req.database \in Kinds
           /\ response'.status = 400
           /\ response'.body.success = FALSE
           /\ response'.calls = <<>>
           /\ tasks' = tasks
           /\ issued' = issued ]_vars

C1_Witness ==
  /\ response.op = "schedule"
  /\ response.req.database = "qdrantdb"
  /\ response.req.delayMinutes = Num(MaxDelayMinutes + 1)
  /\ response.status = 400
  /\ response.calls = <<>>

(* C2: the task ScheduleDelayed(k, d) creates publishes, when it fires, to *)
(* the topic of kind k a message with database=k, triggeredBy=             *)
(* scheduled-task and a scheduledFor; hence every message on the topic of  *)
(* kind k has database=k.                                                  *)
C2_TaskTargetsTopicOfKind ==
  /\ \A id \in DOMAIN tasks :
       /\ tasks[id].httpRequest.url = EnvTopic(id.database)
       /\ tasks[id].httpRequest.body.database = id.database
       /\ tasks[id].httpRequest.body.triggeredBy = "scheduled-task"
       /\ "scheduledFor" \in DOMAIN tasks[id].httpRequest.body
  /\ \A i \in DOMAIN published :
       published[i].topic = EnvTopic(published[i].data.database)

(* the names a listing response carries *)
ListedNames(res) == {res.body.data[i].name : i \in DOMAIN res.body.data}

(* C3: once a worker invocation for kind k has completed successfully, the *)
(* object it uploaded lies under the key prefix of kind k and every        *)
(* ListArtifacts(k) includes it, as first entry when no other object of    *)
(* the kind is newer.                                                      *)
C3_UploadListedUnderKind ==
  \A n \in DOMAIN runs :
    runs[n].pc = "done" =>
      LET k == RecipeKind(runs[n].recipe)
          name == runs[n].uploaded
      IN /\ name \in DOMAIN bucket
         /\ StartsWith(NameText(name), ListPrefix(k))
         /\ \A files \in FileOrders(ListPrefix(k)) :
              /\ name \in ListedNames(listBackups(k, files))
              /\ (\A o \in FilesUnder(ListPrefix(k)) :
                     o /= name => Before(bucket[o].timeCreated, bucket[name].timeCreated))
                   => listBackups(k, files).body.data[1].name = name

(* C4: a cleanup step that fails after the upload never makes the          *)
(* invocation fail.                                                        *)
C4_CleanupFailureNotFatal ==
  \A n \in DOMAIN runs :
    (runs[n].uploaded /= NoName /\ runs[n].cleanup = "failed") => runs[n].pc /= "failed"

(* C5: ListScheduledTasks and GetTaskDetails report, for a task created by *)
(* ScheduleDelayed(k, d), the derived database k.                          *)
C5_DerivedDatabaseIsKind ==
  /\ response.op = "list" =>
       \A i \in DOMAIN response.body.data :
         response.body.data[i].database = response.body.data[i].taskId.database
  /\ (response.op = "details" /\ response.status = 200) =>
       response.body.data.database = response.req.taskId.database

(* C6: CancelTask on an id absent from the queue (never created, already   *)
(* cancelled, or fired and removed) answers with an error that carries the *)
(* adapter's NOT_FOUND, never with success, and changes nothing.           *)
C6_CancelAbsentFails ==
  [][ (response'.op = "cancel" /\ response'.req.taskId \notin DOMAIN tasks)
        => /\ response'.body.success = FALSE
           /\ response'.status >= 400
           /\ response'.body.error = <<"Failed to cancel scheduled task", "NOT_FOUND">>
           /\ tasks' = tasks
           /\ cancelled' = cancelled ]_vars

C6_Witness ==
  /\ response.op = "cancel"
  /\ response.req.taskId \in Fired
  /\ response.req.taskId \notin DOMAIN tasks
  /\ response.status = 500
  /\ response.body.success = FALSE

(* C7: no task is both cancelled with success and fired. *)
C7_CancelledNeverFired == cancelled \cap Fired = {}

(* the entries ListScheduledTasks returns for a task, over every order the *)
(* adapter may list the tasks in                                           *)
ListedFor(id, order) ==
  {e \in {listScheduledTasks(order).body.data[i] :
            i \in DOMAIN listScheduledTasks(order).body.data} : e.taskId = id}

(* C8: a scheduled task is listed with state=pending until it is           *)
(* dispatched or cancelled; once cancelled with success it is listed no    *)
(* more and GetTaskDetails for it fails with the adapter's NOT_FOUND.      *)
C8_ListedUntilCancelled ==
  /\ \A id \in issued \ (cancelled \cup Fired) :
       \A order \in ListOrders :
         /\ ListedFor(id, order) /= {}
         /\ \A e \in ListedFor(id, order) : e.state = "pending"
  /\ \A id \in cancelled :
       /\ \A order \in ListOrders : ListedFor(id, order) = {}
       /\ getTaskDetails(TaskPath(id)).body.success = FALSE
       /\ getTaskDetails(TaskPath(id)).body.error = <<"Failed to get task details", "NOT_FOUND">>

C8_Witness ==
  /\ response.op = "details"
  /\ response.req.taskId \in cancelled
  /\ response.body.success = FALSE
  /\ response.status = 500

(* C9: for an accepted delayMinutes the scheduledFor of the response is    *)
(* now + delayMinutes minutes, the task is due in that same minute, and    *)
(* the delay lies within [1, 43200] minutes.                               *)
C9_ScheduledForIsNowPlusDelay ==
  (response.op = "schedule" /\ response.status = 200) =>
    LET d == ToNumber(response.req.delayMinutes)
        id == response.body.taskName.taskId
    IN /\ d.t = "number"
       /\ d.n >= MinDelayMinutes
       /\ d.n <= MaxDelayMinutes
       /\ response.body.scheduledFor = Instant(now.min + d.n, now.ms)
       /\ tasks[id].scheduleTime.min = now.min + d.n
       /\ Before(now, response.body.scheduledFor)

(* C10: a successful TriggerImmediate(k) publishes exactly one message, to *)
(* the topic of kind k, with action=backup, database=k, triggeredBy=manual *)
(* and no scheduledFor, and returns that message's id; over all published  *)
(* messages scheduledFor is present exactly when triggeredBy is            *)
(* scheduled-task.                                                         *)
C10_TriggerPublishesOneManualMessage ==
  /\ [](\A i \in DOMAIN published :
          ("scheduledFor" \in DOMAIN published[i].data)
            <=> (published[i].data.triggeredBy = "scheduled-task"))
  /\ [][ (response'.op = "trigger" /\ response'.status = 200)
           => /\ Len(published') = Len(published) + 1
              /\ SubSeq(published', 1, Len(published)) = published
              /\ LET m == published'[Len(published')]
                 IN /\ m.topic = EnvTopic(response'.req.database)
                    /\ m.data.action = "backup"
                    /\ m.data.database = response'.req.database
                    /\ m.data.triggeredBy = "manual"
                    /\ "scheduledFor" \notin DOMAIN m.data
                    /\ response'.body.messageId = m.messageId ]_vars

C10_Witness ==
  /\ response.op = "trigger"
  /\ response.status = 200
  /\ response.req.database = "questdb"
  /\ published /= <<>>
  /\ published[Len(published)].topic = EnvTopic("questdb")
  /\ published[Len(published)].messageId = response.body.messageId

(* the adapter call a request of each operation makes *)
AdapterCall(op) == IF op = "trigger" THEN "publishMessage" ELSE "createTask"

(* C11: a TriggerImmediate or ScheduleDelayed request makes at most one    *)
(* publishMessage / createTask call; when the request fails after that     *)
(* call, the answer is a 5xx with success=false and neither a message nor  *)
(* a task has been added.                                                  *)
C11_OneAdapterCallNoRetry ==
  [][ (response'.op \in {"trigger", "schedule"})
        => /\ Len(response'.calls) <= 1
           /\ \A i \in DOMAIN response'.calls : response'.calls[i] = AdapterCall(response'.op)
           /\ (response'.calls /= <<>> /\ ~response'.body.success)
                => /\ response'.status \in 500..599
                   /\ published' = published
                   /\ tasks' = tasks
                   /\ issued' = issued
           /\ response'.body.success
                => /\ response'.calls = <<AdapterCall(response'.op)>>
                   /\ Len(published') + Cardinality(DOMAIN tasks')
                        = Len(published) + Cardinality(DOMAIN tasks) + 1 ]_vars

C11_Witness ==
  /\ response.op = "schedule"
  /\ response.calls = <<"createTask">>
  /\ response.status = 500
  /\ response.body.success = FALSE
  /\ response.body.error = <<"Failed to create backup task", "UNAVAILABLE">>
  /\ tasks = <<>>

(* C12: no schedule request fails because the task id it built is already  *)
(* taken by another request: any two requests obtain distinct ids.         *)
C12_NoTaskIdCollision ==
  (response.op = "schedule" /\ response.calls = <<"createTask">> /\ ~response.body.success)
    => response.body.error /= <<"Failed to create backup task", "ALREADY_EXISTS">>

(* C13: whatever the tasks in the queue and whatever order the adapter     *)
(* lists them in, the data of ListScheduledTasks holds each task once,     *)
(* ascending by scheduledFor, with success=true; with no tasks it is the   *)
(* empty list, still with success=true.                                    *)
C13_ListSortedByScheduledFor ==
  \A order \in ListOrders :
    LET res == listScheduledTasks(order)
        data == res.body.data
    IN /\ res.status = 200
       /\ res.body.success
       /\ res.body.count = Len(data)
       /\ {data[i].taskId : i \in DOMAIN data} = DOMAIN tasks
       /\ Len(data) = Cardinality(DOMAIN tasks)
       /\ \A i, j \in DOMAIN data :
            i < j => AtOrBefore(data[i].scheduledFor, data[j].scheduledFor)
       /\ (DOMAIN tasks = {}) => data = <<>>

C13_Witness ==
  /\ response.op = "list"
  /\ response.status = 200
  /\ Len(response.body.data) = 2
  /\ Before(response.body.data[1].scheduledFor, response.body.data[2].scheduledFor)
  /\ \E order \in ListOrders :
       Before(order[2].scheduleTime, order[1].scheduleTime)

(* C14: for every task in the queue, whatever its dispatch count and       *)
(* whether or not the adapter's record carries a count of zero, the state  *)
(* ListScheduledTasks reports is pending exactly when the count is 0 and   *)
(* dispatched otherwise.                                                   *)
C14_StateFromDispatchCount ==
  \A order \in ListOrders :
    LET data == listScheduledTasks(order).body.data
    IN /\ Len(data) = Len(order)
       /\ \A j \in DOMAIN data :
            LET count == tasks[data[j].taskId].dispatchCount
            IN /\ data[j].state \in {"pending", "dispatched"}
               /\ (data[j].state = "pending") <=> (count = 0)
               /\ data[j].dispatchCount = count

C14_Witness ==
  /\ response.op = "list"
  /\ \E i, j \in DOMAIN response.body.data :
       /\ response.body.data[i].state = "pending"
       /\ response.body.data[i].dispatchCount = 0
       /\ response.body.data[j].state = "dispatched"
       /\ response.body.data[j].dispatchCount = 2
  /\ \E order \in ListOrders : \E i \in DOMAIN order : order[i].dispatchCount = Undefined

(* C15: GenerateDownloadURL for a name that is not in the bucket fails     *)
(* with a "File not found" error and makes no getSignedUrl call; for a     *)
(* name that is in the bucket it never answers "File not found", and its   *)
(* success response carries a signed URL for that name.                    *)
C15_DownloadOfMissingFileFails ==
  (response.op = "download" /\ response.req.fileName /= Undefined) =>
    IF response.req.fileName \notin DOMAIN bucket
    THEN /\ response.body.success = FALSE
         /\ response.status >= 400
         /\ response.body.error = <<"Failed to generate download URL", "File not found">>
         /\ \A i \in DOMAIN response.calls : response.calls[i] /= "getSignedUrl"
    ELSE /\ response.calls = <<"exists", "getSignedUrl">>
         /\ response.body.success
              => /\ response.status = 200
                 /\ response.body.signedUrl.file = response.req.fileName
                 /\ response.body.signedUrl.action = "read"
         /\ ~response.body.success
              => /\ response.body.error[2] \in {"UNAVAILABLE", "Invalid time value"}
                 /\ (response.body.error[2] = "Invalid time value")
                      => parseInt(response.req.expiresInMinutes) = NaN

C15_Witness ==
  /\ response.op = "download"
  /\ response.req.fileName = MissingName
  /\ response.status = 500
  /\ response.calls = <<"exists">>
  /\ bucket /= <<>>

(* the kinds whose list function is among the sources *)
SourceListedKinds == {"postgres", "mongodb", "questdb"}

(* C16: for postgres, mongodb and questdb, ListArtifacts(k) returns each   *)
(* object whose name starts with "<k>/" once and no other object, newest   *)
(* created first, and count is the number of entries returned.             *)
C16_ListIsPrefixSortedByCreated ==
  \A k \in SourceListedKinds :
    \A files \in FileOrders(ListPrefix(k)) :
      LET res == listBackups(k, files)
          data == res.body.data
      IN /\ res.status = 200
         /\ res.body.success
         /\ res.body.count = Len(data)
         /\ {data[i].name : i \in DOMAIN data}
              = {o \in DOMAIN bucket : StartsWith(NameText(o), KindText(k) \o <<"/">>)}
         /\ \A i, j \in DOMAIN data : (i /= j) => data[i].name /= data[j].name
         /\ \A i, j \in DOMAIN data :
              (i < j) => AtOrBefore(data[j].created, data[i].created)
         /\ \A i \in DOMAIN data : data[i].created = bucket[data[i].name].timeCreated

C16_Witness ==
  /\ response.op = "listBackups"
  /\ response.req.database = "mongodb"
  /\ response.body.count = 2
  /\ Before(response.body.data[2].created, response.body.data[1].created)
  /\ \E files \in FileOrders(ListPrefix("mongodb")) :
       Before(bucket[files[1]].timeCreated, bucket[files[2]].timeCreated)

(* C17: a worker invocation that ran to success has uploaded its one       *)
(* artifact and, when its cleanup steps succeeded, none of the files or    *)
(* directories it created on the VM (dump or snapshot files, helper        *)
(* script, compressed archive) is left there.                              *)
C17_NoTemporaryFilesLeft ==
  \A n \in DOMAIN runs :
    runs[n].pc = "done" =>
      /\ runs[n].uploaded \in DOMAIN bucket
      /\ (runs[n].cleanup = "ok" /\ runs[n].snapshotDelete \in {"none", "ok"})
           => runs[n].remote = {}

(* the n-th run is waiting in the readiness poll *)
InPoll(n) == IF n \in DOMAIN runs THEN runs[n].pc = "poll" ELSE FALSE

C19_PollExhaustionFailsRun ==
  [][ \A n \in DOMAIN runs' :
        runs'[n].error.step = "poll" =>
          /\ runs'[n].pc = "failed"
          /\ runs'[n].uploaded = NoName
          /\ runs'[n].cleanup = "none"
          /\ InPoll(n) => bucket' = bucket
          /\ (n \in DOMAIN runs /\ ~InPoll(n)) => runs'[n] = runs[n] ]_vars

C19_Witness ==
  \E n \in DOMAIN runs :
    /\ runs[n].error = AttemptsExhausted("not-found")
    /\ runs[n].pc = "failed"
    /\ runs[n].uploaded = NoName
    /\ UploadName(runs[n].recipe, runs[n].timestamp) \notin DOMAIN bucket

(* C20: in the QdrantDB worker a failure of the server-side snapshot       *)
(* deletion, whether the session cannot connect, the command cannot be     *)
(* executed or the command exits non-zero, does not fail the run: the      *)
(* handler returns success with the storage path of the artifact.          *)
C20_SnapshotDeletionFailureNotFatal ==
  \A n \in DOMAIN runs :
    runs[n].snapshotDelete \in SnapshotDeleteOutcomes \ {"ok"} =>
      /\ runs[n].pc = "done"
      /\ runs[n].uploaded \in DOMAIN bucket

(* the objects whose upload a run has seen finish *)
ConfirmedUploads == {runs[n].uploaded : n \in {m \in DOMAIN runs : runs[m].uploaded /= NoName}}

(* the object run n would have written *)
IntendedName(n) == UploadName(runs[n].recipe, runs[n].timestamp)

C22_RunsUseDistinctNames ==
  \A n \in DOMAIN runs : \A m \in DOMAIN runs :
    (n /= m /\ RecipeKind(runs[n].recipe) = RecipeKind(runs[m].recipe)
       /\ runs[n].timestamp /= InvalidDate /\ runs[m].timestamp /= InvalidDate) =>
      /\ compressedPath(runs[n].recipe, runs[n].timestamp)
           /= compressedPath(runs[m].recipe, runs[m].timestamp)
      /\ IntendedName(n) /= IntendedName(m)

(* C23: the recipe is safe to re-run for all four kinds: the artifact a    *)
(* run uploads holds the data of that run only, and none that a failed     *)
(* earlier attempt left on the VM.                                         *)
C23_ArtifactHoldsNoLeftovers ==
  \A n \in DOMAIN runs :
    runs[n].uploaded /= NoName =>
      /\ n \in runs[n].archived
      /\ runs[n].leftovers = {}

(* the objects that runs of message i have uploaded *)
UploadsFor(i) ==
  {runs[n].uploaded : n \in {m \in DOMAIN runs : runs[m].message = i /\ runs[m].uploaded /= NoName}}

(* C24: one trigger message results in one uploaded artifact, also when an *)
(* invocation for it ends in failure and the message is delivered again:   *)
(* the runs of one message never upload more than one object.              *)
C24_OneArtifactPerMessage ==
  \A i \in DOMAIN published : Cardinality(UploadsFor(i)) <= 1

C26_ResponseHasSuccessAndMessage ==
  (response.op /= "none" /\ response.status /= CallNext.status) =>
    /\ "success" \in DOMAIN response.body
    /\ response.body.success \in BOOLEAN
    /\ "message" \in DOMAIN response.body

(* C27: for a stored object, and unless the signing call itself fails, the *)
(* download request answers with expiresAt = request time +                *)
(* expiresInMinutes minutes, where expiresInMinutes is 60 when the caller  *)
(* gave none and the caller's value otherwise; the signed URL expires at   *)
(* that instant, which is later than the request time.                     *)
C27_ExpiresAtIsRequestTimePlusMinutes ==
  (/\ response.op = "download"
   /\ response.req.fileName \in DOMAIN bucket
   /\ response.body.success \/ response.body.error[2] /= "UNAVAILABLE") =>
    LET given == response.req.expiresInMinutes
        minutes == IF given \in {Undefined, Str(<<>>)} THEN Num(DefaultExpiresInMinutes)
                   ELSE ToNumber(given)
    IN /\ response.status = 200
       /\ response.body.expiresInMinutes = minutes
       /\ response.body.expiresAt = ExpiresAt(now, minutes)
       /\ response.body.signedUrl.expires = response.body.expiresAt
       /\ Before(now, response.body.expiresAt)

(* C28: a scheduled task and its trigger message exist only for the four   *)
(* known database kinds: scheduleBackupTask called with another value      *)
(* fails before the adapter is called, no task is created and no message   *)
(* goes to any topic for it.                                               *)
C28_UnknownDatabaseCreatesNoTask ==
  /\ \A id \in DOMAIN tasks : tasks[id].httpRequest.body.database \in Kinds
  /\ \A i \in DOMAIN published : published[i].data.database \in Kinds
  /\ (response.op = "schedule" /\ response.req.database \notin Kinds) =>
       ~response.body.success /\ response.calls = <<>>

(* the positions a run can move to from position pc *)
StepsAfter(r, pc) ==
  CASE pc = "secrets" -> {"execute", "failed"}
    [] pc = "execute" -> {IF r = "qdrantdb-poll" THEN "poll" ELSE "upload", "failed"}
    [] pc = "poll" -> {"poll", "upload", "failed"}
    [] pc = "upload" -> {"cleanup", "failed"}
    [] pc = "cleanup" -> {IF r = "qdrantdb-download" THEN "snapshotCleanup" ELSE "done", "failed"}
    [] pc = "snapshotCleanup" -> {"done", "failed"}
    [] OTHER -> {}

(* C29: within one run the steps go strictly in sequence.  Before the      *)
(* secrets are fetched no session has been opened (no timestamp taken, no  *)
(* file on the VM); the upload starts only from a backup step, and for the *)
(* polling worker a readiness wait, that ended without error and left its  *)
(* files; cleanup has started only when the upload has finished; the run   *)
(* is done only after cleanup has finished; and every step of a run moves  *)
(* it to a position that follows the one it is at.                         *)
C29_StepsRunInSequence ==
  /\ [](\A n \in DOMAIN runs :
          /\ runs[n].pc = "secrets" =>
               /\ runs[n].timestamp = InvalidDate
               /\ runs[n].remote = {}
          /\ runs[n].pc \in {"secrets", "execute", "poll", "upload"} =>
               /\ runs[n].uploaded = NoName
               /\ runs[n].cleanup = "none"
          /\ runs[n].pc = "upload" =>
               /\ runs[n].error = NoError
               /\ runs[n].timestamp /= InvalidDate
               /\ runs[n].recipe = "qdrantdb-poll" => SnapshotFiles \subseteq runs[n].remote
          /\ runs[n].cleanup /= "none" => runs[n].uploaded /= NoName
          /\ runs[n].pc = "done" => runs[n].cleanup = "ok" /\ runs[n].uploaded /= NoName)
  /\ [][ \A n \in DOMAIN runs :
           /\ runs'[n].pc /= runs[n].pc => runs'[n].pc \in StepsAfter(runs[n].recipe, runs[n].pc)
           /\ runs'[n].uploaded /= runs[n].uploaded =>
                runs[n].pc = "upload" /\ runs'[n].pc = "cleanup"
           /\ runs'[n].cleanup /= runs[n].cleanup => runs[n].pc = "cleanup" ]_vars

C29_Witness ==
  \E n \in DOMAIN runs :
    /\ runs[n].recipe = "qdrantdb-poll"
    /\ runs[n].pc = "done"
    /\ runs[n].cleanup = "ok"
    /\ runs[n].uploaded \in DOMAIN bucket

(* C30: when the read of any of the three secrets fails the run fails at   *)
(* once with that error: a step from the secrets position either goes on   *)
(* with all three read or fails naming the secret; a run failed this way   *)
(* has opened no session (no timestamp, no file on the VM), has uploaded   *)
(* nothing and cleaned nothing, the failing step adds no object and starts *)
(* no run, and the worker takes no further step of that run.               *)
C30_SecretFailureFailsRun ==
  [][ /\ \A n \in DOMAIN runs :
           (runs[n].pc = "secrets" /\ runs'[n] /= runs[n]) =>
             \/ runs'[n].pc = "execute" /\ runs'[n].error = NoError
             \/ /\ runs'[n].pc = "failed"
                /\ runs'[n].error \in {SecretError(secret) : secret \in Secrets}
                /\ bucket' = bucket
                /\ Len(runs') = Len(runs)
      /\ \A n \in DOMAIN runs' :
           runs'[n].error.step = "secrets" =>
             /\ runs'[n].pc = "failed"
             /\ runs'[n].timestamp = InvalidDate
             /\ runs'[n].remote = {}
             /\ runs'[n].uploaded = NoName
             /\ runs'[n].cleanup = "none"
             /\ runs'[n].snapshotDelete = "none"
             /\ (n \in DOMAIN runs /\ runs[n].pc /= "secrets") => runs'[n] = runs[n] ]_vars

C30_Witness ==
  \E n \in DOMAIN runs :
    /\ runs[n].pc = "failed"
    /\ runs[n].error = SecretError("cf-vm-ip")
    /\ runs[n].remote = {}
    /\ IntendedName(n) \notin DOMAIN bucket

(* C31: when a run has settled, with success or with a failure in any      *)
(* phase, every session it opened is closed: none of its own phase and     *)
(* none of another is left open.                                           *)
C31_SettledRunHasNoOpenSession ==
  \A n \in DOMAIN runs :
    runs[n].pc \in {"done", "failed"} => OpenSessions(n) = {}

(* C37: in the readiness poll at most one check is in flight or scheduled, *)
(* no more than maxAttempts checks are ever started, and once the poll has *)
(* resolved or rejected no check is in flight or scheduled any more.       *)
C37_OneCheckAtATime ==
  \A n \in DOMAIN runs :
    /\ Cardinality(ChecksInFlight(n)) + ChecksScheduled(n) <= 1
    /\ runs[n].attempt <= maxAttempts
    /\ runs[n].pollSettled => Cardinality(ChecksInFlight(n)) + ChecksScheduled(n) = 0

(* C39: a run has at most one session open at any moment, during the       *)
(* readiness poll as in every other phase.                                 *)
C39_AtMostOneOpenSession ==
  \A n \in DOMAIN runs : Cardinality(OpenSessions(n)) <= 1

(* C32: when the upload fails the run fails with the upload's error: the   *)
(* failing step writes no object, removes nothing on the VM and starts no  *)
(* cleanup; the compressed file is on the VM when the streams had started; *)
(* and afterwards the run is not retried, never cleans up, never uploads   *)
(* and its compressed file stays where it is.                              *)
C32_FailedUploadSkipsCleanup ==
  [][ \A n \in DOMAIN runs :
        /\ (runs[n].pc = "upload" /\ runs'[n].pc /= "upload" /\ runs'[n].uploaded = NoName) =>
             /\ runs'[n].pc = "failed"
             /\ runs'[n].error.step = "upload"
             /\ runs'[n].error.cause \in UploadOutcomes \ {"finish"}
             /\ runs'[n].cleanup = "none"
             /\ bucket' = bucket
             /\ runs[n].remote \subseteq runs'[n].remote
             /\ runs'[n].error.cause \in {"read-error", "write-error"} =>
                  "compressed" \in runs'[n].remote
        /\ runs[n].error.step = "upload" =>
             /\ runs'[n].pc = "failed"
             /\ runs'[n].error = runs[n].error
             /\ runs'[n].cleanup = "none"
             /\ runs'[n].uploaded = NoName
             /\ "compressed" \in runs[n].remote => "compressed" \in runs'[n].remote ]_vars

C32_Witness ==
  \E n \in DOMAIN runs :
    /\ runs[n].pc = "failed"
    /\ runs[n].error = [step |-> "upload", cause |-> "write-error"]
    /\ "compressed" \in runs[n].remote
    /\ runs[n].cleanup = "none"

Answered(n) ==
  [pc |-> runs[n].pc, error |-> runs[n].error, cleanup |-> runs[n].cleanup,
   snapshotDelete |-> runs[n].snapshotDelete]

(* what run n has done on the VM and in the bucket *)
Performed(n) ==
  [remote |-> runs[n].remote, uploaded |-> runs[n].uploaded /= NoName,
   uploadDir |-> UploadDir(runs[n].recipe),
   archived |-> Cardinality(runs[n].archived)]

(* C34: what a worker does is independent of the content of its trigger    *)
(* message: two runs of the same worker that were answered alike at every  *)
(* step have left the same files on the VM and made the same upload,       *)
(* whatever triggeredBy, scheduledFor and timestamp their messages carry;  *)
(* no step changes or replaces the message of a run, and each step moves   *)
(* the run to a position that follows from the worker and the position     *)
(* alone.                                                                  *)
C34_StepsIndependentOfMessage ==
  /\ [](\A n \in DOMAIN runs : \A m \in DOMAIN runs :
          (runs[n].recipe = runs[m].recipe /\ Answered(n) = Answered(m)) =>
            Performed(n) = Performed(m))
  /\ [][ \A n \in DOMAIN runs :
           /\ runs'[n].message = runs[n].message
           /\ runs'[n].pc /= runs[n].pc =>
                runs'[n].pc \in StepsAfter(runs[n].recipe, runs[n].pc) ]_vars

C34_Witness ==
  \E n \in DOMAIN runs : \E m \in DOMAIN runs :
    /\ runs[n].recipe = runs[m].recipe
    /\ published[runs[n].message].data.triggeredBy = "manual"
    /\ published[runs[m].message].data.triggeredBy = "scheduled-task"
    /\ published[runs[m].message].data.scheduledFor /= published[runs[n].message].data.timestamp
    /\ runs[n].pc = "done"
    /\ runs[m].pc = "done"
    /\ Performed(n) = Performed(m)

(* the fields of an entry that both a listing and the details report *)
SharedFields(e) ==
  [taskName |-> e.taskName, scheduledFor |-> e.scheduledFor, state |-> e.state,
   dispatchCount |-> e.dispatchCount, responseCount |-> e.responseCount]

(* C35: for a task in the queue the details request reports the same       *)
(* taskName, scheduledFor, dispatchCount, responseCount and state as the   *)
(* entry the listing reports for that task; in particular the state is     *)
(* dispatched whenever the task's dispatch count is greater than 0.        *)
C35_DetailsAgreeWithListing ==
  (response.op = "details" /\ response.req.taskId \in DOMAIN tasks) =>
    /\ response.status = 200
    /\ \A order \in ListOrders :
         \A i \in DOMAIN order :
           order[i].name.taskId = response.req.taskId =>
             SharedFields(response.body.data) = SharedFields(ListEntry(order[i]))
    /\ tasks[response.req.taskId].dispatchCount > 0 =>
         response.body.data.state = "dispatched"

(* C36: the cleanup of a run removes only what that run created: the dump  *)
(* of a run that has not yet compressed it is still on the VM, whatever    *)
(* other runs of the same kind have cleaned up meanwhile, and the archive  *)
(* a run has uploaded holds the data of its own dump step.                 *)
C36_CleanupRemovesOnlyOwnFiles ==
  \A n \in DOMAIN runs :
    /\ runs[n].pc = "upload" => backupCommandLeaves(runs[n].recipe) \subseteq runs[n].remote
    /\ runs[n].uploaded /= NoName => n \in runs[n].archived

(* ---------------------------------------------------------------------- *)
(* The read operations next to the requests and uploads that fill the      *)
(* queue, the topics and the bucket                                        *)
(* ---------------------------------------------------------------------- *)
ReadNext ==
  \/ TriggerOnce
  \/ ScheduleOnce
  \/ UploadFinishes
  \/ ListScheduledTasks
  \/ GetTaskDetails
  \/ ListArtifacts
  \/ GenerateDownloadURL

SpecRead == Init /\ [][ReadNext]_vars

(* the operations of the API that only read *)
ReadOps == {"list", "details", "listBackups", "download"}

(* C38: a step in which ListScheduledTasks, GetTaskDetails, ListArtifacts  *)
(* or GenerateDownloadURL answers, with a success or with a failure,       *)
(* leaves the scheduled tasks, the published messages and the stored       *)
(* artifacts as they were                                                  *)
C38_ReadsChangeNothing ==
  [][(response' /= NoResponse /\ response'.op \in ReadOps)
       => /\ tasks' = tasks
          /\ published' = published
          /\ bucket' = bucket]_vars

(* a read that failed while a task is scheduled, a message is published    *)
(* and an artifact is stored                                               *)
C38_Witness ==
  /\ response /= NoResponse
  /\ response.op \in {"details", "download"}
  /\ response.status >= 400
  /\ DOMAIN tasks /= {}
  /\ published /= <<>>
  /\ DOMAIN bucket /= {}

====
